---- MODULE Spec2Model ----
(***************************************************************************)
(* QBench client of pest_auto_report: token lifecycle, the retried request *)
(* pipeline (QBenchClient._request), batch resolution                      *)
(* (QBenchClient.get_batch_samples), sample-id extraction                  *)
(* (QBenchClient._extract_sample_ids_from_batch) and weight extraction     *)
(* (QBenchClient._extract_sample_weight), and the residue engine of        *)
(* ps_processing (process_batch_dataframe and the functions it calls,      *)
(* build_full_analyte_table) with the part of BatchProcessWorker.run that  *)
(* consumes its output.                                                    *)
(*                                                                         *)
(* Strings that the code inspects character by character (ids, component   *)
(* labels, formatted numbers, weights) are sequences of one-character      *)
(* strings.  Floats are exact rationals n/d, NaN is a value of its own, and *)
(* round() rounds exact ties to even; the inputs hold no value whose       *)
(* quotient or tie a binary float would place on the other side.           *)
(* time.time() is read from the                                            *)
(* environment; the model keeps the one fact the code derives from it,     *)
(* whether time.time() >= self._token_exp.  Time passes while the client   *)
(* waits for the network or sleeps, so the fact can turn true at any send  *)
(* and stays true until a token is issued.                                 *)
(***************************************************************************)
EXTENDS Integers, Sequences, FiniteSets, TLC

VARIABLES
    auth_header,   \* 0: Authorization == "", n > 0: "Bearer <n-th issued token>"
    token_exp,     \* self._token_exp: "zero" (0.0) or "issued" (exp of the latest token)
    issued,        \* number of tokens the token endpoint has issued
    timeUp,        \* time.time() >= self._token_exp
    cfg,           \* QBENCH_JWT_LEEWAY_S, QBENCH_JWT_TTL_S
    reqPc,         \* position of _request: idle, loop, send, returned, raised
    url,           \* target of the running _request
    attempt,       \* local attempt of _request
    delay,         \* local delay of _request
    resp,          \* outcome of the latest HTTP send of the running _request
    slept,         \* seconds slept by the handling of the latest send
    sends,         \* HTTP sends made by the running _request
    authCalls,     \* authenticate() calls made by the current attempt
    atStart,       \* the credential when the current attempt began
    sentHeader,    \* Authorization value carried by the latest send
    error,         \* exception raised by _request
    batchPc,       \* position of get_batch_samples
    batch_id,      \* argument of get_batch_samples
    batch_payload, \* payload handed to _extract_sample_ids_from_batch
    ids,           \* what _extract_sample_ids_from_batch returned
    sample_ids,    \* local sample_ids of get_batch_samples
    idx,           \* position of the for loop over sample_ids
    fetched,       \* per visited id: what its fetch produced
    rows,          \* local rows of get_batch_samples
    errors,        \* local errors of get_batch_samples, by the id each entry names
    result,        \* what get_batch_samples returned or raised
    enginePc,      \* position of process_batch_dataframe and of the worker after it
    df,            \* argument df: rows of read_raw_results_excel
    sample_info,   \* argument sample_info: sample key -> sample_weight
    unique_samples,\* local unique_samples
    sample_pos,    \* position of the for loop over unique_samples
    samples,       \* local samples
    display_rows,  \* local display_rows
    output,        \* what process_batch_dataframe returned or raised
    finished,      \* what BatchProcessWorker.run emitted on finished
    table,         \* what build_full_analyte_table returned, and for which sample
    fnPc,          \* position of a direct call of one function
    arg,           \* its argument
    ret            \* what it returned

vars == <<auth_header, token_exp, issued, timeUp, cfg, reqPc, url, attempt, delay,
          resp, slept, sends, authCalls, atStart, sentHeader, error,
          batchPc, batch_id, batch_payload, ids, sample_ids, idx, fetched, rows, errors, result,
          enginePc, df, sample_info, unique_samples, sample_pos, samples, display_rows,
          output, finished, table, fnPc, arg, ret>>

credVars == <<auth_header, token_exp, issued, timeUp>>
reqVars == <<reqPc, url, attempt, delay, resp, slept, sends, authCalls,
             atStart, sentHeader, error>>
batchVars == <<batchPc, batch_id, batch_payload, ids, sample_ids, idx, fetched, rows, errors, result>>
engineVars == <<enginePc, df, sample_info, unique_samples, sample_pos, samples, display_rows,
                output, finished, table>>
fnVars == <<fnPc, arg, ret>>

-----------------------------------------------------------------------------
(* Program constants *)

tries == 5
InitialDelay == 1
backoff == 2
TtlCap == 3300
page_size == 100

(* Bounds of the model *)

MaxThrottle == 2
MaxIds == 2

Min(a, b) == IF a < b THEN a ELSE b

-----------------------------------------------------------------------------
(* Inputs of the environment *)

\* (leeway, ttl) pairs of the configuration: the defaults, and a token that
\* is born expired (ttl <= leeway).
Configs == { [leeway |-> 20, ttl |-> 3580],
             [leeway |-> 20, ttl |-> 10] }

\* the configuration with the default leeway and ttl
DefaultConfig == [leeway |-> 20, ttl |-> 3580]


\* X-QBAPI-Throttle-TTL: absent, a decimal number, or text that int() rejects
NoHeader == -1
BadHeader == -2

NoResp == [kind |-> "none", status |-> 0, ttl |-> NoHeader, namesUrl |-> FALSE]

\* What method(url, **req_kwargs) can do: answer with a status (the throttle
\* header matters on 429 only), time out, or fail with another
\* requests.RequestException whose text may or may not contain the URL.
SendOutcomes ==
    [kind : {"response"}, status : {200, 401, 404, 500}, ttl : {NoHeader}, namesUrl : {FALSE}]
    \cup [kind : {"response"}, status : {429}, ttl : {NoHeader, BadHeader, 0, MaxThrottle}, namesUrl : {FALSE}]
    \cup [kind : {"timeout"}, status : {0}, ttl : {NoHeader}, namesUrl : {FALSE}]
    \cup [kind : {"neterr"}, status : {0}, ttl : {NoHeader}, namesUrl : BOOLEAN]

\* What the token endpoint can do
AuthOutcomes == {"ok", "transport", "http_error", "error_payload", "no_token"}

NoError == [type |-> "none", tag |-> "none", namesUrl |-> FALSE]

-----------------------------------------------------------------------------
(* Token manager *)

\* variant: only the missing header counts, the clock is not consulted
IsTokenExpiredHeaderOnly(hdr, up) == hdr = 0

IsTokenExpired(hdr, up) == (hdr = 0) \/ up

\* authenticate(): the credential it leaves and whether it raised.
\* exp = (now - leeway) + min(ttl, 3300), so now >= exp right after the call
\* exactly when min(ttl, 3300) - leeway <= 0.
Authenticate(a, hdr, exp, n, up) ==
    LET lifetime == Min(cfg.ttl, TtlCap) - cfg.leeway
    IN  CASE a = "ok" ->
               [hdr |-> n + 1, exp |-> "issued", up |-> (lifetime <= 0),
                issued |-> n + 1, raised |-> FALSE]
          [] a = "http_error" ->
               [hdr |-> hdr, exp |-> exp, up |-> up, issued |-> n, raised |-> TRUE]
          [] OTHER ->
               [hdr |-> 0, exp |-> "zero", up |-> TRUE, issued |-> n, raised |-> TRUE]

AuthError == [type |-> "QBenchError", tag |-> "auth", namesUrl |-> FALSE]

-----------------------------------------------------------------------------
(* Request pipeline *)

\* requests.Response.raise_for_status
RaisesForStatus(status) == status >= 400 /\ status < 600

\* local state of a fresh _request call
StartRequest(u) ==
    /\ reqPc' = "loop"
    /\ url' = u
    /\ attempt' = 0
    /\ delay' = InitialDelay
    /\ resp' = NoResp
    /\ slept' = 0
    /\ sends' = 0
    /\ authCalls' = 0
    /\ atStart' = [hdr |-> auth_header, exp |-> token_exp, up |-> timeUp]
    /\ sentHeader' = 0
    /\ error' = NoError

\* variant: the loop admits one attempt too many
LoopConditionOffByOne(a) == a <= tries

\* while attempt < tries
LoopCondition(a) == a < tries

\* head of the while loop up to the send: count the attempt and
\* authenticate when the credential is expired
\* variant: a failure of authenticate() is retried like a transport failure
AttemptBeginAuthRetried ==
    /\ reqPc = "loop"
    /\ LoopCondition(attempt)
    /\ attempt' = attempt + 1
    /\ atStart' = [hdr |-> auth_header, exp |-> token_exp, up |-> timeUp]
    /\ IF IsTokenExpired(auth_header, timeUp)
       THEN \E a \in AuthOutcomes :
              LET r == Authenticate(a, auth_header, token_exp, issued, timeUp)
              IN  /\ auth_header' = r.hdr
                  /\ token_exp' = r.exp
                  /\ timeUp' = r.up
                  /\ issued' = r.issued
                  /\ authCalls' = 1
                  /\ reqPc' = IF r.raised THEN "loop" ELSE "send"
                  /\ slept' = IF r.raised THEN delay ELSE slept
                  /\ delay' = IF r.raised THEN delay * backoff ELSE delay
                  /\ error' = error
       ELSE /\ authCalls' = 0
            /\ reqPc' = "send"
            /\ UNCHANGED <<credVars, error, slept, delay>>
    /\ UNCHANGED <<cfg, engineVars, fnVars, url, resp, sends, sentHeader, batchVars>>

AttemptBegin ==
    /\ reqPc = "loop"
    /\ LoopCondition(attempt)
    /\ attempt' = attempt + 1
    /\ atStart' = [hdr |-> auth_header, exp |-> token_exp, up |-> timeUp]
    /\ IF IsTokenExpired(auth_header, timeUp)
       THEN \E a \in AuthOutcomes :
              LET r == Authenticate(a, auth_header, token_exp, issued, timeUp)
              IN  /\ auth_header' = r.hdr
                  /\ token_exp' = r.exp
                  /\ timeUp' = r.up
                  /\ issued' = r.issued
                  /\ authCalls' = 1
                  /\ reqPc' = IF r.raised THEN "raised" ELSE "send"
                  /\ error' = IF r.raised THEN AuthError ELSE error
       ELSE /\ authCalls' = 0
            /\ reqPc' = "send"
            /\ UNCHANGED <<credVars, error>>
    /\ UNCHANGED <<cfg, engineVars, fnVars, url, delay, resp, slept, sends, sentHeader, batchVars>>

\* variant: the delay is not multiplied
SleepAndRetryNoBackoff(s) ==
    /\ slept' = s
    /\ delay' = delay
    /\ reqPc' = "loop"
    /\ error' = error

\* time.sleep(s); delay *= backoff; next iteration
SleepAndRetry(s) ==
    /\ slept' = s
    /\ delay' = delay * backoff
    /\ reqPc' = "loop"
    /\ error' = error

\* an exception leaves _request
Raise(e) ==
    /\ reqPc' = "raised"
    /\ error' = e
    /\ delay' = delay
    /\ slept' = 0

\* the credential is left alone while the clock runs on
KeepCredential ==
    /\ UNCHANGED <<auth_header, token_exp, issued>>
    /\ timeUp' \in {timeUp, TRUE}

\* variant: the rejected credential is kept
ClearCredentialForgotten ==
    /\ UNCHANGED <<auth_header, token_exp, issued>>
    /\ timeUp' \in {timeUp, TRUE}

\* self.auth_header["Authorization"] = ""; self._token_exp = 0.0
ClearCredential ==
    /\ auth_header' = 0
    /\ token_exp' = "zero"
    /\ timeUp' = TRUE
    /\ issued' = issued

\* variant: a throttled answer invalidates the token as a 401 does
Handle429Clears(o) ==
    /\ ClearCredential
    /\ IF o.ttl = NoHeader
       THEN SleepAndRetry(delay)
       ELSE IF o.ttl = BadHeader
            THEN Raise([type |-> "ValueError", tag |-> "int", namesUrl |-> FALSE])
            ELSE SleepAndRetry(o.ttl + 1)

\* if resp.status_code == 429: sleep int(ttl) + 1 if ttl else delay
Handle429(o) ==
    /\ KeepCredential
    /\ IF o.ttl = NoHeader
       THEN SleepAndRetry(delay)
       ELSE IF o.ttl = BadHeader
            THEN Raise([type |-> "ValueError", tag |-> "int", namesUrl |-> FALSE])
            ELSE SleepAndRetry(o.ttl + 1)

\* if resp.status_code == 401: force re-authentication
Handle401 ==
    /\ ClearCredential
    /\ SleepAndRetry(delay)

\* variant: the final attempt is retried like the others
HandleRequestExceptionAlwaysRetries(causeNamesUrl) == SleepAndRetry(delay)

\* except requests.RequestException as e, for a cause whose text names the
\* URL or not
HandleRequestException(causeNamesUrl) ==
    IF attempt = tries
    THEN Raise([type |-> "QBenchError", tag |-> "wrapped", namesUrl |-> causeNamesUrl])
    ELSE SleepAndRetry(delay)

\* resp.raise_for_status(); return resp.  The requests.HTTPError is raised
\* inside the try and is a RequestException; its text ends in "for url: <url>"
HandleOtherStatus(o) ==
    /\ KeepCredential
    /\ IF RaisesForStatus(o.status)
       THEN HandleRequestException(TRUE)
       ELSE /\ reqPc' = "returned"
            /\ slept' = 0
            /\ UNCHANGED <<delay, error>>

\* except requests.Timeout
HandleTimeout ==
    /\ KeepCredential
    /\ SleepAndRetry(delay)

\* the send of one attempt and the handling of its outcome
Send ==
    /\ reqPc = "send"
    /\ \E o \in SendOutcomes :
         /\ resp' = o
         /\ sends' = sends + 1
         /\ sentHeader' = auth_header
         /\ CASE o.kind = "response" /\ o.status = 429 -> Handle429(o)
              [] o.kind = "response" /\ o.status = 401 -> Handle401
              [] o.kind = "response" /\ o.status \notin {401, 429} -> HandleOtherStatus(o)
              [] o.kind = "timeout" -> HandleTimeout
              [] o.kind = "neterr" -> KeepCredential /\ HandleRequestException(o.namesUrl)
    /\ UNCHANGED <<cfg, engineVars, fnVars, url, attempt, authCalls, atStart, batchVars>>

\* the while condition fails: raise QBenchError(f"Fallo tras {tries} intentos: {url}")
Exhausted ==
    /\ reqPc = "loop"
    /\ ~LoopCondition(attempt)
    /\ reqPc' = "raised"
    /\ error' = [type |-> "QBenchError", tag |-> "exhausted", namesUrl |-> TRUE]
    /\ UNCHANGED <<credVars, cfg, engineVars, fnVars, url, attempt, delay, resp, slept, sends,
                   authCalls, atStart, sentHeader, batchVars>>

-----------------------------------------------------------------------------
(* Sample-id extraction *)

Range(f) == { f[i] : i \in DOMAIN f }

Digit(d) == CASE d = 0 -> "0" [] d = 1 -> "1" [] d = 2 -> "2" [] d = 3 -> "3"
              [] d = 4 -> "4" [] d = 5 -> "5" [] d = 6 -> "6" [] d = 7 -> "7"
              [] d = 8 -> "8" [] d = 9 -> "9"

\* str(n) of a non-negative int
RECURSIVE IntToStr(_)
IntToStr(n) == IF n < 10 THEN <<Digit(n)>>
               ELSE Append(IntToStr(n \div 10), Digit(n % 10))

\* str.strip()
RECURSIVE LStrip(_)
LStrip(s) == IF s # <<>> /\ Head(s) = " " THEN LStrip(Tail(s)) ELSE s
RECURSIVE RStrip(_)
RStrip(s) == IF s # <<>> /\ s[Len(s)] = " " THEN RStrip(SubSeq(s, 1, Len(s) - 1)) ELSE s
Strip(s) == RStrip(LStrip(s))

\* JSON scalars: an int n, a float n or n + 1/2, a string, null
IntV(n) == [t |-> "int", n |-> n, half |-> FALSE, s |-> <<>>]
FloatV(n, h) == [t |-> "float", n |-> n, half |-> h, s |-> <<>>]
StrV(s) == [t |-> "str", n |-> 0, half |-> FALSE, s |-> s]
NoneV == [t |-> "none", n |-> 0, half |-> FALSE, s |-> <<>>]

\* the string add() derives from a candidate
CandidateStr(c) ==
    IF c.t \in {"int", "float"} THEN IntToStr(c.n)
    ELSE IF c.t = "none" THEN <<>>
    ELSE Strip(c.s)

\* variant: seen is not consulted
AddNoSeen(st, c) ==
    LET candidate_str == CandidateStr(c)
    IN  IF candidate_str = <<>> THEN st
        ELSE [ids |-> Append(st.ids, candidate_str),
              seen |-> st.seen \cup {candidate_str}]

\* add(candidate) on the pair (ids, seen)
Add(st, c) ==
    LET candidate_str == CandidateStr(c)
    IN  IF candidate_str = <<>> THEN st
        ELSE IF candidate_str \notin st.seen
             THEN [ids |-> Append(st.ids, candidate_str),
                   seen |-> st.seen \cup {candidate_str}]
             ELSE st

RECURSIVE AddAll(_, _)
AddAll(st, cs) == IF cs = <<>> THEN st ELSE AddAll(Add(st, Head(cs)), Tail(cs))

\* one item of a samples / sample_records / sample_list list: a scalar, or a
\* dict d given as a function from its keys to scalars
ScalarItem(c) == [dict |-> FALSE, c |-> c, d |-> <<>>]
DictItem(d) == [dict |-> TRUE, c |-> NoneV, d |-> d]

ItemCandidates(item) ==
    IF ~item.dict
    THEN IF item.c.t \in {"str", "int", "float"} THEN <<item.c>> ELSE <<>>
    ELSE IF "id" \in DOMAIN item.d THEN <<item.d["id"]>>
    ELSE IF "sample_id" \in DOMAIN item.d THEN <<item.d["sample_id"]>>
    ELSE IF "sample" \in DOMAIN item.d THEN <<item.d["sample"]>>
    ELSE <<>>

RECURSIVE ObjectCandidates(_)
ObjectCandidates(items) ==
    IF items = <<>> THEN <<>>
    ELSE ItemCandidates(Head(items)) \o ObjectCandidates(Tail(items))

\* entries of relationships.<samples|sample>.data, dicts given as functions
RECURSIVE RelCandidates(_)
RelCandidates(entries) ==
    IF entries = <<>> THEN <<>>
    ELSE (IF "id" \in DOMAIN Head(entries) THEN <<Head(entries)["id"]>> ELSE <<>>)
         \o RelCandidates(Tail(entries))

\* entries of included, dicts with a type and possibly an id
RECURSIVE IncludedCandidates(_)
IncludedCandidates(entries) ==
    IF entries = <<>> THEN <<>>
    ELSE (IF Head(entries)["type"] \in {"sample", "samples"} /\ "id" \in DOMAIN Head(entries)
          THEN <<Head(entries)["id"]>> ELSE <<>>)
         \o IncludedCandidates(Tail(entries))

\* value.get(key) when it is a list, else nothing
ListOf(body, key) == IF key \in DOMAIN body /\ body[key].list THEN body[key].items ELSE <<>>

\* relationships.get("samples") or relationships.get("sample"), then its data
RelData(body) ==
    IF "relationships" \notin DOMAIN body THEN <<>>
    ELSE LET rel == body["relationships"]
             rel_samples == IF "samples" \in DOMAIN rel /\ rel["samples"].truthy
                            THEN rel["samples"]
                            ELSE IF "sample" \in DOMAIN rel THEN rel["sample"]
                            ELSE [truthy |-> FALSE, list |-> FALSE, items |-> <<>>]
         IN  IF rel_samples.truthy /\ rel_samples.list THEN rel_samples.items ELSE <<>>

\* the dict the scan runs over: payload["data"] when that is a dict
ScannedBody(payload) ==
    IF "data" \in DOMAIN payload /\ payload["data"].dict THEN payload["data"].body ELSE payload

ExtractSampleIdsFromBatch(payload) ==
    LET body == ScannedBody(payload)
        s0 == [ids |-> <<>>, seen |-> {}]
        s1 == AddAll(AddAll(s0, ListOf(body, "sample_ids")), ListOf(body, "sample_ids_ordered"))
        s2 == AddAll(AddAll(AddAll(s1,
                  ObjectCandidates(ListOf(body, "samples"))),
                  ObjectCandidates(ListOf(body, "sample_records"))),
                  ObjectCandidates(ListOf(body, "sample_list")))
        s3 == AddAll(s2, RelCandidates(RelData(body)))
        s4 == AddAll(s3, IncludedCandidates(ListOf(body, "included")))
    IN  s4.ids

-----------------------------------------------------------------------------
(* Batch payloads *)

EmptyDict == <<>>
L(items) == [list |-> TRUE, items |-> items]
NotAList == [list |-> FALSE, items |-> <<>>]
Rel(items) == [truthy |-> TRUE, list |-> TRUE, items |-> items]
NoRel == [truthy |-> FALSE, list |-> FALSE, items |-> <<>>]
Wrapped(body) == [data |-> [dict |-> TRUE, body |-> body]]

S002 == <<"0", "0", "2">>
S005 == <<"0", "0", "5">>
S1pad == <<" ", "1", " ">>
S7 == <<"7">>

\* the payload of test_extract_sample_ids_from_batch_merges_sources
TestPayload ==
    Wrapped([sample_ids |-> L(<<IntV(1), StrV(S002), IntV(3)>>),
             samples |-> L(<<DictItem([id |-> StrV(S005)]),
                             DictItem([sample_id |-> IntV(6)]),
                             DictItem([sample |-> StrV(<<"0", "0", "7">>)])>>),
             relationships |-> [samples |-> Rel(<<[id |-> StrV(S005)], [id |-> StrV(<<"0", "0", "8">>)]>>)],
             included |-> L(<<[type |-> "sample", id |-> StrV(<<"0", "0", "9">>)],
                              [type |-> "other", id |-> StrV(<<"i", "g">>)]>>)])

Bodies ==
    LET ScalarListChoices ==
            { NotAList,
              L(<<IntV(1), StrV(S002), FloatV(3, FALSE)>>),
              L(<<StrV(S1pad), NoneV, StrV(<<>>), FloatV(12, TRUE), IntV(1)>>) }
        ObjectListChoices ==
            { NotAList,
              L(<<DictItem([id |-> StrV(S005)]), DictItem([sample_id |-> IntV(3)]),
                  DictItem([sample |-> StrV(S7)]), ScalarItem(IntV(12))>>),
              L(<<DictItem([id |-> NoneV, sample_id |-> IntV(4)]), DictItem([name |-> StrV(S7)]),
                  ScalarItem(StrV(S002)), ScalarItem(NoneV), DictItem([id |-> IntV(1)])>>) }
        RelChoices ==
            { [samples |-> NoRel],
              [samples |-> Rel(<<[id |-> StrV(S005)], [id |-> IntV(8)], [type |-> StrV(S7)]>>)],
              [samples |-> NoRel, sample |-> Rel(<<[id |-> StrV(S7)], [id |-> StrV(S002)]>>)] }
        IncludedChoices ==
            { NotAList,
              L(<<[type |-> "sample", id |-> IntV(9)], [type |-> "other", id |-> StrV(<<"g">>)],
                  [type |-> "samples", id |-> StrV(S005)], [type |-> "sample"]>>),
              L(<<[type |-> "test", id |-> IntV(1)], [type |-> "sample", id |-> StrV(S7)]>>) }
    IN  { [sample_ids |-> a, sample_ids_ordered |-> b, samples |-> c, sample_list |-> d,
           relationships |-> r, included |-> i] :
            a \in ScalarListChoices, b \in {NotAList, L(<<IntV(8), StrV(S002)>>)},
            c \in ObjectListChoices, d \in {NotAList, L(<<ScalarItem(FloatV(9, FALSE))>>)},
            r \in RelChoices, i \in IncludedChoices }


\* payloads a batch fetch answers with: k ids, and one whose sources overlap
IdList(k) == [i \in 1..k |-> IntV(i)]
BatchPayloads ==
    { Wrapped([sample_ids |-> L(IdList(k))]) : k \in 0..MaxIds }
    \cup { Wrapped([sample_ids |-> L(<<StrV(S1pad)>>),
                    relationships |-> [samples |-> Rel(<<[id |-> IntV(1)], [id |-> StrV(S002)]>>)]]) }


-----------------------------------------------------------------------------
(* get_batch_samples *)

NoResult == [kind |-> "none", rows |-> <<>>, msg |-> [tag |-> "none"], error |-> NoError]

\* bodies GET sample/{id} can answer with: data a dict, data a list, no data
SampleBodies(sid) ==
    { [data |-> "dict", objs |-> <<[id |-> sid]>>, self |-> [id |-> sid]],
      [data |-> "list", objs |-> <<>>, self |-> [id |-> sid]],
      [data |-> "list", objs |-> <<[id |-> sid]>>, self |-> [id |-> sid]],
      [data |-> "absent", objs |-> <<>>, self |-> [id |-> sid]] }

SampleList(body) ==
    IF body.data = "dict" THEN <<body.objs[1]>>
    ELSE IF body.data = "list" THEN body.objs
    ELSE <<body.self>>

\* the summary message; fallidos = -1 when it has no failure part
Summary(rs, sids, errs) ==
    [tag |-> "obtenidos", obtenidos |-> Len(rs), ids |-> Len(sids),
     fallidos |-> IF errs # <<>> THEN Len(errs) ELSE -1]

\* the call, up to the request for the batch resource
GetBatchSamples ==
    /\ batchPc = "idle"
    /\ \E b \in {"", "1021"} :
         /\ batch_id' = b
         /\ IF b = ""
            THEN /\ batchPc' = "done"
                 /\ result' = [NoResult EXCEPT !.kind = "return", !.msg = [tag |-> "vacio"]]
                 /\ UNCHANGED reqVars
            ELSE /\ batchPc' = "batchFetch"
                 /\ result' = result
                 /\ StartRequest(<<"batch", b>>)
    /\ UNCHANGED <<credVars, cfg, engineVars, fnVars, batch_payload, ids, sample_ids, idx, fetched, rows, errors>>

\* self.get(f"batch/{batch_id}") raised: nothing catches it
BatchFetchRaised ==
    /\ batchPc = "batchFetch"
    /\ reqPc = "raised"
    /\ batchPc' = "done"
    /\ result' = [NoResult EXCEPT !.kind = "raise", !.error = error]
    /\ reqPc' = "idle"
    /\ UNCHANGED <<credVars, cfg, engineVars, fnVars, url, attempt, delay, resp, slept, sends, authCalls,
                   atStart, sentHeader, error,
                   batch_id, batch_payload, ids, sample_ids, idx, fetched, rows, errors>>

\* if not sample_ids: return [], f"Batch {batch_id}: 0 samples referenciados"
ZeroIdsRaises == [NoResult EXCEPT !.kind = "raise"]
ZeroIdsReturn == [NoResult EXCEPT !.kind = "return", !.msg = [tag |-> "cero"]]

\* the batch resource arrived: extract, truncate, start the loop
BatchFetched ==
    /\ batchPc = "batchFetch"
    /\ reqPc = "returned"
    /\ \E p \in BatchPayloads :
         LET extracted == ExtractSampleIdsFromBatch(p)
             cut == SubSeq(extracted, 1, Min(Len(extracted), page_size))
         IN  /\ batch_payload' = p
             /\ ids' = extracted
             /\ sample_ids' = cut
             /\ IF cut = <<>>
                THEN /\ batchPc' = "done"
                     /\ result' = ZeroIdsReturn
                     /\ reqPc' = "idle"
                     /\ UNCHANGED <<url, attempt, delay, resp, slept, sends, authCalls,
                                    atStart, sentHeader, error, idx>>
                ELSE /\ batchPc' = "sampleFetch"
                     /\ idx' = 1
                     /\ result' = result
                     /\ StartRequest(<<"sample", cut[1]>>)
    /\ rows' = <<>>
    /\ errors' = <<>>
    /\ fetched' = <<>>
    /\ UNCHANGED <<credVars, cfg, engineVars, fnVars, batch_id>>

\* end of one loop iteration: next id, or the return after the last one
NextSample(rs, errs) ==
    IF idx < Len(sample_ids)
    THEN /\ idx' = idx + 1
         /\ batchPc' = "sampleFetch"
         /\ result' = result
         /\ StartRequest(<<"sample", sample_ids[idx + 1]>>)
    ELSE /\ idx' = idx
         /\ batchPc' = "done"
         /\ result' = [NoResult EXCEPT !.kind = "return", !.rows = rs,
                                       !.msg = Summary(rs, sample_ids, errs)]
         /\ reqPc' = "idle"
         /\ UNCHANGED <<url, attempt, delay, resp, slept, sends, authCalls,
                        atStart, sentHeader, error>>

\* self.get(f"sample/{sample_id}") returned a payload
SampleFetched ==
    /\ batchPc = "sampleFetch"
    /\ reqPc = "returned"
    /\ \E body \in SampleBodies(sample_ids[idx]) :
         LET sample_list == SampleList(body)
             \* _sample_rows_from_payload, then parsed.copy() without "_raw"
             parsed == [i \in 1..Len(sample_list) |-> [id |-> sample_list[i].id]]
         IN  /\ rows' = rows \o parsed
             /\ fetched' = Append(fetched, [ok |-> TRUE, rows |-> parsed])
             /\ errors' = errors
             /\ NextSample(rows \o parsed, errors)
    /\ UNCHANGED <<credVars, cfg, engineVars, fnVars, batch_id, batch_payload, ids, sample_ids>>

\* self.get(f"sample/{sample_id}") raised: except QBenchError collects it,
\* anything else leaves get_batch_samples
SampleRaised ==
    /\ batchPc = "sampleFetch"
    /\ reqPc = "raised"
    /\ fetched' = Append(fetched, [ok |-> FALSE, rows |-> <<>>])
    /\ rows' = rows
    /\ IF error.type = "QBenchError"
       THEN /\ errors' = Append(errors, sample_ids[idx])
            /\ NextSample(rows, Append(errors, sample_ids[idx]))
       ELSE /\ errors' = errors
            /\ batchPc' = "done"
            /\ result' = [NoResult EXCEPT !.kind = "raise", !.error = error]
            /\ reqPc' = "idle"
            /\ UNCHANGED <<url, attempt, delay, resp, slept, sends, authCalls,
                           atStart, sentHeader, error, idx>>
    /\ UNCHANGED <<credVars, cfg, engineVars, fnVars, batch_id, batch_payload, ids, sample_ids>>

-----------------------------------------------------------------------------
(* Residue engine: numbers and their text *)

\* a float is the rational n/d with d > 0, or NaN; None is the missing float
Num(n, d) == [k |-> "num", n |-> n, d |-> d]
NaN == [k |-> "nan", n |-> 0, d |-> 1]
None == [k |-> "none", n |-> 0, d |-> 1]

Less(a, b) == a.n * b.d < b.n * a.d
Abs(n) == IF n < 0 THEN -n ELSE n

RECURSIVE Pow10(_)
Pow10(e) == IF e = 0 THEN 1 ELSE 10 * Pow10(e - 1)

\* math.floor(math.log10(n/d)) for n/d > 0
RECURSIVE FloorLog10(_, _)
FloorLog10(n, d) ==
    IF n >= 10 * d THEN FloorLog10(n, 10 * d) + 1
    ELSE IF n < d THEN FloorLog10(10 * n, d) - 1
    ELSE 0

\* round(n/d) to an integer, ties to even
RoundHalfEven(n, d) ==
    LET q == n \div d
        r == n % d
    IN  IF 2 * r > d THEN q + 1
        ELSE IF 2 * r = d THEN q + (q % 2)
        ELSE q

\* str.rstrip(c)
RECURSIVE RStripChar(_, _)
RStripChar(s, c) ==
    IF s # <<>> /\ s[Len(s)] = c THEN RStripChar(SubSeq(s, 1, Len(s) - 1), c) ELSE s

RECURSIVE ZeroPad(_, _)
ZeroPad(s, w) == IF Len(s) >= w THEN s ELSE ZeroPad(<<"0">> \o s, w)

\* f"{m / 10**decimals:.{decimals}f}" for an integer m >= 0 and decimals > 0
FormatFixed(m, decimals) ==
    IntToStr(m \div Pow10(decimals)) \o <<".">> \o ZeroPad(IntToStr(m % Pow10(decimals)), decimals)

\* variant: the fixed-point text keeps its trailing zeros
FormatSigfigsKeepsZeros(value, sig) ==
    IF value.k # "num" \/ value.n = 0 THEN <<"0">>
    ELSE LET a == Abs(value.n)
             power == FloorLog10(a, value.d)
             decimals == sig - 1 - power
             m == IF decimals >= 0 THEN RoundHalfEven(a * Pow10(decimals), value.d)
                  ELSE RoundHalfEven(a, value.d * Pow10(-decimals))
             sign == IF value.n < 0 THEN <<"-">> ELSE <<>>
         IN  IF decimals > 0 THEN sign \o FormatFixed(m, decimals)
             ELSE sign \o IntToStr(m * Pow10(-decimals))

\* _format_sigfigs_no_sci(value, sig)
FormatSigfigsNoSci(value, sig) ==
    IF value.k # "num" \/ value.n = 0 THEN <<"0">>
    ELSE LET a == Abs(value.n)
             power == FloorLog10(a, value.d)
             decimals == sig - 1 - power
             m == IF decimals >= 0 THEN RoundHalfEven(a * Pow10(decimals), value.d)
                  ELSE RoundHalfEven(a, value.d * Pow10(-decimals))
             sign == IF value.n < 0 THEN <<"-">> ELSE <<>>
         IN  IF decimals > 0
             THEN LET s == RStripChar(RStripChar(sign \o FormatFixed(m, decimals), "0"), ".")
                  IN  IF s = <<>> THEN <<"0">> ELSE s
             ELSE sign \o IntToStr(m * Pow10(-decimals))

IsDigit(c) == c \in {"0", "1", "2", "3", "4", "5", "6", "7", "8", "9"}

RECURSIVE DigitsToInt(_)
DigitsToInt(s) ==
    IF s = <<>> THEN 0 ELSE 10 * DigitsToInt(SubSeq(s, 1, Len(s) - 1)) + (CHOOSE v \in 0..9 : Digit(v) = s[Len(s)])

\* float(s) for decimal literals: optional sign, digits, at most one point;
\* any other text raises ValueError
ParseFloat(s) ==
    LET t == Strip(s)
        neg == t # <<>> /\ Head(t) = "-"
        u == IF t # <<>> /\ Head(t) \in {"-", "+"} THEN Tail(t) ELSE t
        dots == { i \in DOMAIN u : u[i] = "." }
        digs == SelectSeq(u, IsDigit)
        frac == IF dots = {} THEN 0 ELSE Len(u) - (CHOOSE i \in dots : TRUE)
    IN  IF Cardinality(dots) <= 1 /\ digs # <<>> /\ Len(digs) + Cardinality(dots) = Len(u)
        THEN Num(IF neg THEN -DigitsToInt(digs) ELSE DigitsToInt(digs), Pow10(frac))
        ELSE [k |-> "error", n |-> 0, d |-> 1]

-----------------------------------------------------------------------------
(* Residue engine: analyte universe *)

LOQ == Num(1, 10)

\* one entry of STATE_LIMITS, the limit given in tenths
E(name, tenths) == [name |-> name, limit |-> Num(tenths, 10)]

STATE_LIMITS == <<
    E(<<"A","b","a","m","e","c","t","i","n">>, 5),
    E(<<"A","c","e","p","h","a","t","e">>, 4),
    E(<<"A","c","e","q","u","i","n","o","c","y","l">>, 20),
    E(<<"A","c","e","t","a","m","i","p","r","i","d">>, 2),
    E(<<"A","l","d","i","c","a","r","b">>, 4),
    E(<<"A","z","o","x","y","s","t","r","o","b","i","n">>, 2),
    E(<<"B","i","f","e","n","a","z","a","t","e">>, 2),
    E(<<"B","i","f","e","n","t","h","r","i","n">>, 2),
    E(<<"B","o","s","c","a","l","i","d">>, 4),
    E(<<"C","a","r","b","a","r","y","l">>, 2),
    E(<<"C","a","r","b","o","f","u","r","a","n">>, 2),
    E(<<"C","h","l","o","r","a","n","t","r","a","n","i","l","i","p","r","o","l","e">>, 2),
    E(<<"C","h","l","o","r","f","e","n","a","p","y","r">>, 10),
    E(<<"C","h","l","o","r","p","y","r","i","f","o","s">>, 2),
    E(<<"C","l","o","f","e","n","t","e","z","i","n","e">>, 2),
    E(<<"C","y","f","l","u","t","h","r","i","n">>, 10),
    E(<<"C","y","p","e","r","m","e","t","h","r","i","n">>, 10),
    E(<<"D","a","m","i","n","o","z","i","d","e">>, 10),
    E(<<"D","i","a","z","i","n","o","n">>, 2),
    E(<<"D","i","c","h","l","o","r","v","o","s">>, 10),
    E(<<"D","i","m","e","t","h","o","a","t","e">>, 2),
    E(<<"E","t","h","o","p","r","o","p","h","o","s">>, 2),
    E(<<"E","t","o","f","e","n","p","r","o","x">>, 4),
    E(<<"E","t","o","x","a","z","o","l","e">>, 2),
    E(<<"F","e","n","o","x","y","c","a","r","b">>, 2),
    E(<<"F","e","n","p","y","r","o","x","i","m","a","t","e">>, 4),
    E(<<"F","i","p","r","o","n","i","l">>, 4),
    E(<<"F","l","o","n","i","c","a","m","i","d">>, 10),
    E(<<"F","l","u","d","i","o","x","o","n","i","l">>, 4),
    E(<<"H","e","x","y","t","h","i","a","z","o","x">>, 10),
    E(<<"I","m","a","z","a","l","i","l">>, 2),
    E(<<"I","m","i","d","a","c","l","o","p","r","i","d">>, 4),
    E(<<"K","r","e","s","o","x","i","m","-","m","e","t","h","y","l">>, 4),
    E(<<"M","a","l","a","t","h","i","o","n"," ","A">>, 2),
    E(<<"M","e","t","a","l","a","x","y","l">>, 2),
    E(<<"M","e","t","h","i","o","c","a","r","b">>, 2),
    E(<<"M","e","t","h","o","m","y","l">>, 4),
    E(<<"M","e","t","h","y","l"," ","p","a","r","a","t","h","i","o","n">>, 2),
    E(<<"M","G","K"," ","2","6","4">>, 2),
    E(<<"M","y","c","l","o","b","u","t","a","n","i","l">>, 2),
    E(<<"N","a","l","e","d">>, 5),
    E(<<"O","x","a","m","y","l">>, 10),
    E(<<"P","a","c","l","o","b","u","t","r","a","z","o","l">>, 4),
    E(<<"P","e","r","m","e","t","h","r","i","n","s","*">>, 2),
    E(<<"P","h","o","s","m","e","t">>, 2),
    E(<<"P","i","p","e","r","o","n","y","l"," ","b","u","t","o","x","i","d","e">>, 20),
    E(<<"P","r","a","l","l","e","t","h","r","i","n">>, 2),
    E(<<"P","r","o","p","i","c","o","n","a","z","o","l","e">>, 4),
    E(<<"P","r","o","p","o","x","u","r","e">>, 2),
    E(<<"P","y","r","e","t","h","r","i","n","s","*">>, 10),
    E(<<"P","y","r","i","d","a","b","e","n">>, 2),
    E(<<"S","p","i","n","o","s","a","d","*">>, 2),
    E(<<"S","p","i","r","o","m","e","s","i","f","e","n">>, 2),
    E(<<"S","p","i","r","o","t","e","t","r","a","m","a","t">>, 2),
    E(<<"S","p","i","r","o","x","a","m","i","n","e">>, 4),
    E(<<"T","e","b","u","c","o","n","a","z","o","l","e">>, 4),
    E(<<"T","h","i","a","c","l","o","p","r","i","d">>, 2),
    E(<<"T","h","i","a","m","e","t","h","o","x","a","m">>, 2),
    E(<<"T","r","i","f","l","o","x","y","s","t","r","o","b","i","n">>, 2) >>

ANALYTES == [i \in DOMAIN STATE_LIMITS |-> STATE_LIMITS[i].name]

\* STATE_LIMITS.get(analyte)
StateLimit(analyte) ==
    IF \E i \in DOMAIN STATE_LIMITS : STATE_LIMITS[i].name = analyte
    THEN STATE_LIMITS[CHOOSE i \in DOMAIN STATE_LIMITS : STATE_LIMITS[i].name = analyte].limit
    ELSE None

-----------------------------------------------------------------------------
(* Residue engine: per-row functions *)

ND == <<"N", "D">>
InvalidMass == <<"I", "n", "v", "a", "l", "i", "d", " ", "M", "a", "s", "s">>
InvalidAmt == <<"I", "n", "v", "a", "l", "i", "d", " ", "A", "m", "t">>
ErrorText == <<"E", "r", "r", "o", "r">>
Dash == <<"-">>

\* map_component_to_analyte
MapComponentToAnalyte(component_name) ==
    LET s == Strip(component_name)
    IN  IF Len(s) >= 2 /\ SubSeq(s, Len(s) - 1, Len(s)) = <<" ", "1">>
        THEN Strip(SubSeq(s, 1, Len(s) - 2))
        ELSE s

\* length of the longest suffix of s made of characters of cs
RECURSIVE TrailingRun(_, _)
TrailingRun(s, cs) ==
    IF s # <<>> /\ s[Len(s)] \in cs THEN TrailingRun(SubSeq(s, 1, Len(s) - 1), cs) + 1 ELSE 0

\* _normalize_component_name: re.sub(r'\s+\d+$', '', name.strip())
NormalizeComponentName(name) ==
    LET s == Strip(name)
        nd == TrailingRun(s, {"0", "1", "2", "3", "4", "5", "6", "7", "8", "9"})
        rest == SubSeq(s, 1, Len(s) - nd)
        nw == TrailingRun(rest, {" "})
    IN  IF nd >= 1 /\ nw >= 1 THEN SubSeq(rest, 1, Len(rest) - nw) ELSE s

\* variant: a result at the LOQ counts as not detected
ComputeFinalResultLoqExclusive(amount, mass_mg, dilution_factor) ==
    IF amount.k # "num" THEN <<"0">>
    ELSE IF amount.n = 0 THEN ND
    ELSE IF mass_mg.k # "num" \/ mass_mg.n <= 0 THEN InvalidMass
    ELSE LET df_value == IF dilution_factor.k # "num" THEN Num(0, 1) ELSE dilution_factor
             res == Num(amount.n * mass_mg.d * df_value.n, amount.d * mass_mg.n * df_value.d)
         IN  IF ~Less(LOQ, res) THEN ND ELSE FormatSigfigsNoSci(res, 3)

\* _compute_final_result
ComputeFinalResult(amount, mass_mg, dilution_factor) ==
    IF amount.k # "num" THEN <<"0">>
    ELSE IF amount.n = 0 THEN ND
    ELSE IF mass_mg.k # "num" \/ mass_mg.n <= 0 THEN InvalidMass
    ELSE LET df_value == IF dilution_factor.k # "num" THEN Num(0, 1) ELSE dilution_factor
             res == Num(amount.n * mass_mg.d * df_value.n, amount.d * mass_mg.n * df_value.d)
         IN  IF Less(res, LOQ) THEN ND ELSE FormatSigfigsNoSci(res, 3)

\* variant: a value equal to the limit fails
StatusFromFinalAtLimitFails(analyte, final_result) ==
    IF final_result = ND THEN "Pass"
    ELSE IF final_result \in {Dash, InvalidMass, InvalidAmt, ErrorText, <<>>} THEN "-"
    ELSE LET numeric == ParseFloat(final_result)
             limit == StateLimit(analyte)
         IN  IF numeric.k = "error" THEN "Error"
             ELSE IF limit.k = "none" THEN "-"
             ELSE IF ~Less(numeric, limit) THEN "Fail" ELSE "Pass"

\* _status_from_final
StatusFromFinal(analyte, final_result) ==
    IF final_result = ND THEN "Pass"
    ELSE IF final_result \in {Dash, InvalidMass, InvalidAmt, ErrorText, <<>>} THEN "-"
    ELSE LET numeric == ParseFloat(final_result)
             limit == StateLimit(analyte)
         IN  IF numeric.k = "error" THEN "Error"
             ELSE IF limit.k = "none" THEN "-"
             ELSE IF Less(limit, numeric) THEN "Fail" ELSE "Pass"

\* math.ceil(n/d) for n/d > 0
Ceil(n, d) == (n + d - 1) \div d

\* variant: the threshold itself already asks for a dilution
ComputeDilutionRecommendationAt200(calc_conc) ==
    IF calc_conc.k # "num" \/ Less(calc_conc, Num(200, 1)) THEN Dash
    ELSE IntToStr(Ceil(calc_conc.n, calc_conc.d * 200))

\* _compute_dilution_recommendation
ComputeDilutionRecommendation(calc_conc) ==
    IF calc_conc.k # "num" \/ ~Less(Num(200, 1), calc_conc) THEN Dash
    ELSE IntToStr(Ceil(calc_conc.n, calc_conc.d * 200))

-----------------------------------------------------------------------------
(* Residue engine: process_batch_dataframe *)

\* variant: a key takes the place of its last occurrence
RECURSIVE FromKeysLastSeen(_)
FromKeysLastSeen(xs) ==
    IF xs = <<>> THEN <<>>
    ELSE LET rest == FromKeysLastSeen(Tail(xs))
         IN  IF Head(xs) \in Range(rest) THEN rest ELSE <<Head(xs)>> \o rest

\* list(dict.fromkeys(xs))
RECURSIVE FromKeys(_)
FromKeys(xs) ==
    IF xs = <<>> THEN <<>>
    ELSE LET init == FromKeys(SubSeq(xs, 1, Len(xs) - 1))
             last == xs[Len(xs)]
         IN  IF last \in Range(init) THEN init ELSE Append(init, last)

\* df[df["include"]]
DfYes(d) == SelectSeq(d, LAMBDA r : r.include)

\* df_yes[df_yes["sample"] == sample_key] with the analyte_base column
Subset(df_yes, sample_key) ==
    LET sub == SelectSeq(df_yes, LAMBDA r : r.sample = sample_key)
    IN  [i \in DOMAIN sub |->
            [sample |-> sub[i].sample, component |-> sub[i].component,
             calc_conc |-> sub[i].calc_conc, dilution_factor |-> sub[i].dilution_factor,
             include |-> sub[i].include,
             analyte_base |-> MapComponentToAnalyte(sub[i].component)]]

\* variant: rows without a concentration are kept
DropNaKeepsAll(sub) == SelectSeq(sub, LAMBDA r : r.calc_conc.k \in {"num", "nan"})

\* subset.dropna(subset=["calc_conc"])
DropNa(sub) == SelectSeq(sub, LAMBDA r : r.calc_conc.k = "num")

\* variant: keep="last"
RECURSIVE DropDuplicatesKeepLast(_)
DropDuplicatesKeepLast(sub) ==
    IF sub = <<>> THEN <<>>
    ELSE LET rest == DropDuplicatesKeepLast(Tail(sub))
         IN  IF \E i \in DOMAIN rest : rest[i].analyte_base = Head(sub).analyte_base
             THEN rest ELSE <<Head(sub)>> \o rest

\* subset.drop_duplicates(subset=["analyte_base"], keep="first")
RECURSIVE DropDuplicates(_)
DropDuplicates(sub) ==
    IF sub = <<>> THEN <<>>
    ELSE LET init == DropDuplicates(SubSeq(sub, 1, Len(sub) - 1))
             last == sub[Len(sub)]
         IN  IF \E i \in DOMAIN init : init[i].analyte_base = last.analyte_base
             THEN init ELSE Append(init, last)

\* variant: a missing or unreadable weight counts as 1 mg
MassMgDefaultsToOne(info) ==
    IF "sample_weight" \notin DOMAIN info THEN Num(1, 1)
    ELSE LET parsed == ParseFloat(SelectSeq(info["sample_weight"], LAMBDA c : c # ","))
         IN  IF parsed.k = "error" THEN Num(1, 1) ELSE parsed

\* info.get("sample_weight"), then float(str(mass_value).replace(',', '').strip())
MassMg(info) ==
    IF "sample_weight" \notin DOMAIN info THEN None
    ELSE LET parsed == ParseFloat(SelectSeq(info["sample_weight"], LAMBDA c : c # ","))
         IN  IF parsed.k = "error" THEN None ELSE parsed

\* subset["dilution_factor"].dropna(), its first value or None
DilutionFactor(sub) ==
    LET dil_series == SelectSeq(sub, LAMBDA r : r.dilution_factor.k = "num")
    IN  IF dil_series = <<>> THEN None ELSE dil_series[1].dilution_factor

\* one iteration of the loop over subset.iterrows(): the ProcessedAnalyte
AnalyteResult(row, mass_mg, dilution_factor) ==
    LET final_result == ComputeFinalResult(row.calc_conc, mass_mg, dilution_factor)
    IN  [analyte |-> row.analyte_base,
         component |-> row.component,
         calc_conc |-> IF row.calc_conc.k = "num" THEN row.calc_conc ELSE Num(0, 1),
         final_result |-> final_result,
         status |-> StatusFromFinal(row.analyte_base, final_result),
         dil |-> ComputeDilutionRecommendation(row.calc_conc)]

DisplayRow(sample_key, r) ==
    [sample |-> sample_key, component |-> r.component, status |-> r.status, dil |-> r.dil]

NoOutput == [kind |-> "none", error |-> "none", samples |-> <<>>, display_rows |-> <<>>]
NoFinished == [emitted |-> FALSE, ok |-> FALSE, sample_count |-> 0, msg |-> "none"]

\* the call, up to the loop over unique_samples
ProcessBatchDataframe ==
    /\ enginePc = "call"
    /\ IF DfYes(df) = <<>>
       THEN /\ output' = [NoOutput EXCEPT !.kind = "raise", !.error = "ValueError"]
            /\ enginePc' = "raised"
            /\ UNCHANGED <<unique_samples, sample_pos>>
       ELSE /\ unique_samples' = FromKeys([i \in DOMAIN DfYes(df) |-> DfYes(df)[i].sample])
            /\ sample_pos' = 1
            /\ enginePc' = "loop"
            /\ output' = output
    /\ samples' = <<>>
    /\ display_rows' = <<>>
    /\ UNCHANGED <<credVars, cfg, reqVars, batchVars, fnVars, df, sample_info, finished, table>>

\* one iteration of the loop over unique_samples
ProcessSample ==
    /\ enginePc = "loop"
    /\ sample_pos <= Len(unique_samples)
    /\ LET sample_key == unique_samples[sample_pos]
           subset == DropDuplicates(DropNa(Subset(DfYes(df), sample_key)))
           info == IF sample_key \in DOMAIN sample_info THEN sample_info[sample_key] ELSE EmptyDict
           mass_mg == MassMg(info)
           dilution_factor == DilutionFactor(subset)
           analyte_results == [i \in DOMAIN subset |->
                                  AnalyteResult(subset[i], mass_mg, dilution_factor)]
       IN  IF subset = <<>>
           THEN UNCHANGED <<samples, display_rows>>
           ELSE /\ samples' = Append(samples, [sample |-> sample_key,
                                               dilution_factor |-> dilution_factor,
                                               mass_mg |-> mass_mg,
                                               results |-> analyte_results])
                /\ display_rows' = display_rows \o
                       [i \in DOMAIN analyte_results |-> DisplayRow(sample_key, analyte_results[i])]
    /\ sample_pos' = sample_pos + 1
    /\ UNCHANGED <<credVars, cfg, reqVars, batchVars, fnVars, enginePc, df, sample_info,
                   unique_samples, output, finished, table>>

\* variant: an empty sample list is a ValueError
ReturnedOutputRaisesOnEmpty ==
    IF samples = <<>> THEN [NoOutput EXCEPT !.kind = "raise", !.error = "ValueError"]
    ELSE [NoOutput EXCEPT !.kind = "return", !.samples = samples, !.display_rows = display_rows]

\* return BatchProcessOutput(samples=samples, display_rows=display_rows)
ReturnedOutput ==
    [NoOutput EXCEPT !.kind = "return", !.samples = samples, !.display_rows = display_rows]

ReturnOutput ==
    /\ enginePc = "loop"
    /\ sample_pos > Len(unique_samples)
    /\ output' = ReturnedOutput
    /\ enginePc' = IF ReturnedOutput.kind = "return" THEN "returned" ELSE "raised"
    /\ UNCHANGED <<credVars, cfg, reqVars, batchVars, fnVars, df, sample_info, unique_samples,
                   sample_pos, samples, display_rows, finished, table>>

\* BatchProcessWorker.run from the return of process_batch_dataframe on
WorkerRun ==
    /\ enginePc \in {"returned", "raised"}
    /\ finished' =
         IF output.kind = "raise"
         THEN [NoFinished EXCEPT !.emitted = TRUE, !.msg = output.error]
         ELSE IF output.samples = <<>>
         THEN [NoFinished EXCEPT !.emitted = TRUE, !.msg = "RuntimeError"]
         ELSE [NoFinished EXCEPT !.emitted = TRUE, !.ok = TRUE,
                                 !.sample_count = Len(output.samples), !.msg = ""]
    /\ enginePc' = "finished"
    /\ UNCHANGED <<credVars, cfg, reqVars, batchVars, fnVars, df, sample_info, unique_samples,
                   sample_pos, samples, display_rows, output, table>>

-----------------------------------------------------------------------------
(* Residue engine: build_full_analyte_table *)

\* existing.get(analyte), existing being keyed by _normalize_component_name
\* of each result's component, later results replacing earlier ones;
\* 0 stands for None
Existing(results, analyte) ==
    LET hits == { i \in DOMAIN results : NormalizeComponentName(results[i].component) = analyte }
    IN  IF hits = {} THEN 0 ELSE CHOOSE i \in hits : \A j \in hits : j <= i

TableRow(results, analyte) ==
    LET i == Existing(results, analyte)
    IN  IF i = 0
        THEN [name |-> analyte, amount |-> Num(0, 1), loq |-> LOQ,
              limit |-> StateLimit(analyte), final_result |-> ND, status |-> "Pass"]
        ELSE [name |-> analyte, amount |-> results[i].calc_conc, loq |-> LOQ,
              limit |-> StateLimit(analyte), final_result |-> results[i].final_result,
              status |-> results[i].status]

\* variant: only the analytes the sample reports
BuildFullAnalyteTableReportedOnly(sample) ==
    LET all == [j \in DOMAIN ANALYTES |-> TableRow(sample.results, ANALYTES[j])]
    IN  SelectSeq(all, LAMBDA r : Existing(sample.results, r.name) # 0)

\* build_full_analyte_table(sample)
BuildFullAnalyteTable(sample) ==
    [j \in DOMAIN ANALYTES |-> TableRow(sample.results, ANALYTES[j])]

\* build_full_analyte_table called on one processed sample
BuildTable ==
    /\ enginePc = "finished"
    /\ finished.ok
    /\ \E i \in DOMAIN output.samples :
          table' = [sample |-> output.samples[i].sample,
                    rows |-> BuildFullAnalyteTable(output.samples[i])]
    /\ enginePc' = "tabled"
    /\ UNCHANGED <<credVars, cfg, reqVars, batchVars, fnVars, df, sample_info, unique_samples,
                   sample_pos, samples, display_rows, output, finished>>

\* _compute_dilution_recommendation called on one value
DilutionRecommendationCall ==
    /\ fnPc = "dilution"
    /\ ret' = ComputeDilutionRecommendation(IF arg.k = "none" THEN NaN ELSE arg)
    /\ fnPc' = "returned"
    /\ UNCHANGED <<credVars, cfg, reqVars, batchVars, engineVars, arg>>

\* _format_sigfigs_no_sci called on one value with sig = 3
FormatSigfigsCall ==
    /\ fnPc = "format"
    /\ ret' = FormatSigfigsNoSci(arg, 3)
    /\ fnPc' = "formatted"
    /\ UNCHANGED <<credVars, cfg, reqVars, batchVars, engineVars, arg>>

-----------------------------------------------------------------------------
(* Sample record builder: weight extraction *)

\* the characters of keys and values, in code-point order
Chars ==
    <<
      " ", "#", "(", ")", ",", "-", ".", "0", "1", "2", "3", "4", "5", "6", "7", "8",
      "9", "A", "B", "C", "D", "E", "F", "G", "H", "I", "J", "K", "L", "M", "N", "O",
      "P", "Q", "R", "S", "T", "U", "V", "W", "X", "Y", "Z", "_", "a", "b", "c", "d",
      "e", "f", "g", "h", "i", "j", "k", "l", "m", "n", "o", "p", "q", "r", "s", "t",
      "u", "v", "w", "x", "y", "z"
    >>
CharCode(c) == CHOOSE i \in DOMAIN Chars : Chars[i] = c
\* str.lower()
Lower(s) ==
    [i \in DOMAIN s |->
        IF CharCode(s[i]) >= CharCode("A") /\ CharCode(s[i]) <= CharCode("Z")
        THEN Chars[CharCode(s[i]) + CharCode("a") - CharCode("A")]
        ELSE s[i]]
\* sub in s
Contains(s, sub) == \E i \in 0..(Len(s) - Len(sub)) : SubSeq(s, i + 1, i + Len(sub)) = sub
\* a < b on str
RECURSIVE StrLess(_, _)
StrLess(a, b) ==
    IF b = <<>> THEN FALSE
    ELSE IF a = <<>> THEN TRUE
    ELSE IF Head(a) # Head(b) THEN CharCode(Head(a)) < CharCode(Head(b))
    ELSE StrLess(Tail(a), Tail(b))

\* the values a payload holds under a key: an int or float n/d, a str, and
\* with k = "none" None, with k = "dict" a dict or list
NumberValue(n, d) == [k |-> "num", n |-> n, d |-> d, s |-> <<>>]
TextValue(s) == [k |-> "str", n |-> 0, d |-> 1, s |-> s]
EmptyText == TextValue(<<>>)

\* a dict is the sequence of its items in insertion order
Item(key, value) == [key |-> key, value |-> value]

preferred_keys ==
    << <<"s", "a", "m", "p", "l", "e", "_", "w", "e", "i", "g", "h", "t">>,
       <<"S", "a", "m", "p", "l", "e", "_", "w", "e", "i", "g", "h", "t">>,
       <<"S", "a", "m", "p", "l", "e", "_", "w", "e", "i", "g", "h", "t", "_", "m", "g">>,
       <<"S", "a", "m", "p", "l", "e", "_", "w", "e", "i", "g", "h", "t", "_", "2", "0", "0", "m", "g">>,
       <<"S", "a", "m", "p", "l", "e", "_", "w", "e", "i", "g", "h", "t", "_", "2", "0", "m", "g">>,
       <<"W", "e", "i", "g", "h", "t", "_", "m", "g">>,
       <<"T", "r", "i", "p", "_", "W", "e", "i", "g", "h", "t", "_", "m", "g">>,
       <<"D", "u", "p", "_", "w", "e", "i", "g", "h", "t", "_", "m", "g">>,
       <<"W", "e", "i", "g", "h", "t", "_", "g">>,
       <<"T", "r", "i", "p", "_", "W", "e", "i", "g", "h", "t", "_", "g">>,
       <<"D", "u", "p", "_", "w", "e", "i", "g", "h", "t", "_", "g">> >>

\* normalize_output(value)
NormalizeOutput(value) ==
    IF value.k = "none" THEN EmptyText
    ELSE IF value.k = "num" THEN value
    ELSE IF value.k = "dict" THEN EmptyText
    ELSE TextValue(Strip(value.s))

\* variant: only the label of the assay is consulted
TestPriorityLabelOnly(test) ==
    IF Lower(test.assay.label_abbr) = <<"p", "s">> THEN 2 ELSE 0

\* test_priority(test)
TestPriority(test) ==
    LET label == Lower(test.assay.label_abbr)
        name == Lower(test.assay.name)
    IN  IF Contains(name, <<"p", "e", "s", "t">>) \/ label = <<"p", "s">> \/ Contains(label, <<"p", "e", "s", "t">>)
        THEN 2 ELSE 0

\* abs(numeric - 500.0) with numeric = parse_float(normalized), or
\* float('inf') when parse_float gives None
Closeness(normalized) ==
    LET parsed == ParseFloat(Strip(SelectSeq(normalized.s, LAMBDA c : c # ",")))
        numeric == IF normalized.k = "num" THEN Num(normalized.n, normalized.d)
                   ELSE IF parsed.k = "num" THEN parsed ELSE None
    IN  IF numeric.k = "num"
        THEN [inf |-> FALSE, n |-> Abs(numeric.n - 500 * numeric.d), d |-> numeric.d]
        ELSE [inf |-> TRUE, n |-> 0, d |-> 1]
ClosenessLess(a, b) == ~a.inf /\ (b.inf \/ a.n * b.d < b.n * a.d)
ClosenessEq(a, b) == IF a.inf \/ b.inf THEN a.inf /\ b.inf ELSE a.n * b.d = b.n * a.d

\* the tuple (-priority, -bonus, closeness, order, normalized)
Candidate(test, order, normalized) ==
    LET state_bonus == IF Lower(test.state) = <<"c", "o", "m", "p", "l", "e", "t", "e", "d">> THEN 1 ELSE 0
    IN  [priority |-> -TestPriority(test), bonus |-> -state_bonus,
         closeness |-> Closeness(normalized), order |-> order, normalized |-> normalized]

\* the candidates one test adds: the loop over preferred_keys on the test
\* itself, then the loop over worksheet.items()
TestCandidateWeights(test, order) ==
    LET Has(key) == \E i \in DOMAIN test.entries : test.entries[i].key = key
        Get(key) == test.entries[CHOOSE i \in DOMAIN test.entries : test.entries[i].key = key].value
        keys == SelectSeq(preferred_keys,
                          LAMBDA key : Has(key) /\ NormalizeOutput(Get(key)) # EmptyText)
        items == SelectSeq(test.worksheet_data,
                           LAMBDA it : NormalizeOutput(it.value) # EmptyText)
    IN  [i \in DOMAIN keys |-> Candidate(test, order, NormalizeOutput(Get(keys[i])))]
        \o [i \in DOMAIN items |-> Candidate(test, order, NormalizeOutput(items[i].value))]

\* candidate_weights after the loop over enumerate(tests)
RECURSIVE CandidateWeights(_)
CandidateWeights(tests) ==
    IF tests = <<>> THEN <<>>
    ELSE CandidateWeights(SubSeq(tests, 1, Len(tests) - 1))
         \o TestCandidateWeights(tests[Len(tests)], Len(tests) - 1)

\* two candidate tuples equal up to the order component
SameKey(a, b) ==
    /\ a.priority = b.priority
    /\ a.bonus = b.bonus
    /\ ClosenessEq(a.closeness, b.closeness)
    /\ a.order = b.order
\* a < b on candidate tuples whose last components are both numbers or both str
TupleLess(a, b) ==
    \/ a.priority < b.priority
    \/ a.priority = b.priority /\ a.bonus < b.bonus
    \/ a.priority = b.priority /\ a.bonus = b.bonus /\ ClosenessLess(a.closeness, b.closeness)
    \/ /\ a.priority = b.priority
       /\ a.bonus = b.bonus
       /\ ClosenessEq(a.closeness, b.closeness)
       /\ a.order < b.order
    \/ /\ SameKey(a, b)
       /\ IF a.normalized.k = "num"
          THEN a.normalized.n * b.normalized.d < b.normalized.n * a.normalized.d
          ELSE StrLess(a.normalized.s, b.normalized.s)

\* search_container(container)
SearchContainer(container) ==
    LET hits == SelectSeq(container,
                          LAMBDA it : /\ \/ Contains(Lower(it.key), <<"w", "e", "i", "g", "h", "t">>)
                                         \/ Contains(Lower(it.key), <<"p", "e", "s", "o">>)
                                      /\ NormalizeOutput(it.value) # EmptyText)
    IN  IF hits = <<>> THEN EmptyText ELSE NormalizeOutput(hits[1].value)

\* _extract_sample_weight(sample, custom_fields): the value returned, or the
\* TypeError of sort() on a number and a str under equal leading components.
\* Of the sample's own keys only those of sample.entries can name a weight.
ExtractSampleWeight(sample, custom_fields) ==
    LET candidate_weights == CandidateWeights(sample.tests)
        first == CHOOSE i \in DOMAIN candidate_weights :
                    /\ \A j \in DOMAIN candidate_weights :
                          ~TupleLess(candidate_weights[j], candidate_weights[i])
                    /\ \A j \in 1..(i - 1) :
                          \E h \in DOMAIN candidate_weights :
                              TupleLess(candidate_weights[h], candidate_weights[j])
        containers == <<custom_fields, sample.custom_fields, sample.fields, sample.entries>>
        found == { i \in DOMAIN containers : SearchContainer(containers[i]) # EmptyText }
    IN  IF candidate_weights # <<>>
        THEN IF \E i, j \in DOMAIN candidate_weights :
                    /\ SameKey(candidate_weights[i], candidate_weights[j])
                    /\ candidate_weights[i].normalized.k # candidate_weights[j].normalized.k
             THEN [kind |-> "raise", value |-> EmptyText]
             ELSE [kind |-> "return", value |-> candidate_weights[first].normalized]
        ELSE IF found # {}
        THEN [kind |-> "return",
              value |-> SearchContainer(containers[CHOOSE i \in found : \A j \in found : i <= j])]
        ELSE [kind |-> "return", value |-> EmptyText]

\* _extract_sample_weight called on one sample and its custom fields
ExtractSampleWeightCall ==
    /\ fnPc = "weight"
    /\ ret' = ExtractSampleWeight(arg.sample, arg.custom_fields)
    /\ fnPc' = "weighed"
    /\ UNCHANGED <<credVars, cfg, reqVars, batchVars, engineVars, arg>>

-----------------------------------------------------------------------------
(* Residue engine: inputs *)

MaxRows == 3

Row(s, c, a, f, inc) ==
    [sample |-> s, component |-> c, calc_conc |-> a, dilution_factor |-> f, include |-> inc]

Bifenthrin == <<"B", "i", "f", "e", "n", "t", "h", "r", "i", "n">>
Bifenthrin1 == <<"B", "i", "f", "e", "n", "t", "h", "r", "i", "n", " ", "1">>
Bifenthrin2 == <<"B", "i", "f", "e", "n", "t", "h", "r", "i", "n", " ", "2">>
Abamectin1 == <<"A", "b", "a", "m", "e", "c", "t", "i", "n", " ", "1">>
MGK264 == <<"M", "G", "K", " ", "2", "6", "4">>


\* calc_conc after pd.to_numeric(errors="coerce")
Amounts ==
    {NaN, Num(0, 1), Num(-5, 1), Num(999, 10), Num(100, 1), Num(200, 1), Num(2004, 10),
     Num(2006, 10), Num(201, 1), Num(400, 1), Num(401, 1), Num(500, 1), Num(501, 1),
     Num(2000, 1), Num(2010, 1), Num(1234567, 1)}


Info(w) == [x \in {"sample_weight"} |-> w]

\* one-row frames with their metadata: every combination
RowFrames ==
    LET Components ==
            {Bifenthrin, Bifenthrin1, Bifenthrin2,
             <<"B", "i", "f", "e", "n", "t", "h", "r", "i", "n", " ", "1", "2">>,
             Abamectin1, MGK264,
             <<"M", "G", "K", " ", "2", "6", "4", " ", "1">>,
             <<"U", "n", "l", "i", "s", "t", "e", "d">>}
        Dilutions == {NaN, Num(1, 1), Num(2, 1)}
    IN  { <<Row("S1", c, a, f, inc)>> :
            c \in Components, a \in Amounts, f \in Dilutions, inc \in BOOLEAN }
RowInfos ==
    LET \* sample_weight texts of the sample metadata
        Weights == {<<"1", "0", "0", "0">>, <<"1", ",", "0", "0", "0">>,
                    <<" ", "5", "0", "0", " ">>, <<"0">>, <<"-", "5">>, <<"a", "b", "c">>, <<>>}
    IN  { [x \in {"S1"} |-> Info(w)] : w \in Weights }
        \cup { [x \in {"S2"} |-> Info(<<"1", "0", "0", "0">>)], [x \in {"S1"} |-> EmptyDict] }

RECURSIVE SeqsUpTo(_, _)
SeqsUpTo(S, len) ==
    IF len = 0 THEN {<<>>}
    ELSE LET shorter == SeqsUpTo(S, len - 1)
         IN  shorter \cup { Append(q, x) : q \in { t \in shorter : Len(t) = len - 1 }, x \in S }

\* rows of the multi-row frames
BatchFrames ==
    LET BatchRows ==
            { Row("S1", Bifenthrin1, NaN, NaN, TRUE),
              Row("S1", Bifenthrin, Num(250, 1), Num(1, 1), TRUE),
              Row("S1", Bifenthrin1, Num(150, 1), Num(2, 1), TRUE),
              Row("S1", Abamectin1, Num(401, 1), NaN, FALSE),
              Row("S1", MGK264, Num(0, 1), Num(1, 1), TRUE),
              Row("S2", MGK264, NaN, NaN, TRUE),
              Row("S2", Bifenthrin2, Num(300, 1), Num(1, 1), TRUE) }
    IN  SeqsUpTo(BatchRows, MaxRows) \ {<<>>}
BatchInfos ==
    { [x \in {"S1", "S2"} |-> IF x = "S1" THEN Info(<<"1", "0", "0", "0">>) ELSE Info(<<" ", "5", "0", "0", " ">>)],
      [x \in {"S1"} |-> Info(<<"1", "0", "0", "0">>)],
      [x \in {"S1", "S2"} |-> IF x = "S1" THEN Info(<<"a", "b", "c">>) ELSE Info(<<"1", ",", "0", "0", "0">>)],
      [x \in {"S1", "S2"} |-> IF x = "S1" THEN Info(<<"0">>) ELSE Info(<<"-", "5">>)] }

-----------------------------------------------------------------------------
(* Specifications *)

InitClient ==
    /\ auth_header = 0
    /\ token_exp = "zero"
    /\ issued = 0
    /\ timeUp = TRUE
    /\ cfg \in Configs
    /\ reqPc = "idle"
    /\ url = <<>>
    /\ attempt = 0
    /\ delay = InitialDelay
    /\ resp = NoResp
    /\ slept = 0
    /\ sends = 0
    /\ authCalls = 0
    /\ atStart = [hdr |-> 0, exp |-> "zero", up |-> TRUE]
    /\ sentHeader = 0
    /\ error = NoError
    /\ batch_id = ""
    /\ sample_ids = <<>>
    /\ idx = 0
    /\ fetched = <<>>
    /\ rows = <<>>
    /\ errors = <<>>
    /\ result = NoResult

\* the residue engine before any call
NoEngine ==
    /\ unique_samples = <<>>
    /\ sample_pos = 0
    /\ samples = <<>>
    /\ display_rows = <<>>
    /\ output = NoOutput
    /\ finished = NoFinished
    /\ table = [sample |-> "", rows |-> <<>>]

NoFn ==
    /\ fnPc = "idle"
    /\ arg = None
    /\ ret = <<>>

InitEngineIdle ==
    /\ NoEngine
    /\ enginePc = "idle"
    /\ df = <<>>
    /\ sample_info = EmptyDict

\* a client on which get_batch_samples is called
Init ==
    /\ InitClient
    /\ batchPc = "idle"
    /\ batch_payload = EmptyDict
    /\ ids = <<>>
    /\ InitEngineIdle
    /\ NoFn

Next ==
    \/ GetBatchSamples
    \/ AttemptBegin
    \/ Send
    \/ Exhausted
    \/ BatchFetched
    \/ BatchFetchRaised
    \/ SampleFetched
    \/ SampleRaised

Spec == Init /\ [][Next]_vars

\* _extract_sample_ids_from_batch applied to one payload
ExtractIds ==
    /\ batchPc = "extract"
    /\ ids' = ExtractSampleIdsFromBatch(batch_payload)
    /\ batchPc' = "extracted"
    /\ UNCHANGED <<credVars, cfg, engineVars, fnVars, reqVars, batch_id, batch_payload, sample_ids,
                   idx, fetched, rows, errors, result>>

InitExtract ==
    /\ InitClient
    /\ batchPc = "extract"
    /\ batch_payload \in ({TestPayload, EmptyDict} \cup Bodies \cup { Wrapped(b) : b \in Bodies })
    /\ ids = <<>>
    /\ InitEngineIdle
    /\ NoFn

NextExtract == ExtractIds

SpecExtract == InitExtract /\ [][NextExtract]_vars

NextEngine ==
    \/ ProcessBatchDataframe
    \/ ProcessSample
    \/ ReturnOutput
    \/ WorkerRun
    \/ BuildTable

\* the worker processes a frame of several rows
InitBatch ==
    /\ InitClient
    /\ batchPc = "idle"
    /\ batch_payload = EmptyDict
    /\ ids = <<>>
    /\ cfg = DefaultConfig
    /\ NoFn
    /\ NoEngine
    /\ enginePc = "call"
    /\ df \in BatchFrames
    /\ sample_info \in BatchInfos

SpecBatch == InitBatch /\ [][NextEngine]_vars

\* the worker processes a frame of one row
InitRow ==
    /\ InitClient
    /\ batchPc = "idle"
    /\ batch_payload = EmptyDict
    /\ ids = <<>>
    /\ cfg = DefaultConfig
    /\ NoFn
    /\ NoEngine
    /\ enginePc = "call"
    /\ df \in RowFrames
    /\ sample_info \in RowInfos

SpecRow == InitRow /\ [][NextEngine]_vars

\* raw concentrations around the dilution threshold and its multiples
DilutionArgs ==
    Amounts \cup {None}
    \cup { Num(n, 10) : n \in (1995..2005) \cup (3995..4005) \cup (5995..6005)
                               \cup (7995..8005) }

\* finite values of one to six significant digits over seven decades
FormatArgs ==
    { Num(n, d) : n \in {0, 1, 5, 12, 100, 123, 999, 1000, 1234, 1236, 9994, 9996, 9999,
                         12345, 123456, -25, -1236},
                  d \in {1, 10, 1000, 100000} }

\* bound: the number of tests on a sample
MaxTests == 2

\* tests of a sample: the assay (name and label_abbr), the state, the test's
\* other keys and its worksheet_data (empty when the test has none)
WeightTests ==
    LET Pesticide == [name |-> <<"P", "e", "s", "t", "i", "c", "i", "d", "e", " ", "R", "e", "s", "i", "d", "u", "e">>, label_abbr |-> <<>>]
        Ps == [name |-> <<"P", "a", "n", "e", "l">>, label_abbr |-> <<"P", "S">>]
        Moisture == [name |-> <<"M", "o", "i", "s", "t", "u", "r", "e">>, label_abbr |-> <<"M", "C">>]
    IN  { [assay |-> Moisture, state |-> <<"c", "o", "m", "p", "l", "e", "t", "e", "d">>,
           entries |-> <<Item(<<"s", "a", "m", "p", "l", "e", "_", "w", "e", "i", "g", "h", "t">>, NumberValue(3, 1))>>,
           worksheet_data |-> <<>>],
          [assay |-> Moisture, state |-> <<"c", "o", "m", "p", "l", "e", "t", "e", "d">>,
           entries |-> <<Item(<<"s", "a", "m", "p", "l", "e", "_", "w", "e", "i", "g", "h", "t">>, NumberValue(500, 1))>>,
           worksheet_data |-> <<>>],
          [assay |-> Moisture, state |-> <<"c", "o", "m", "p", "l", "e", "t", "e", "d">>,
           entries |-> <<>>,
           worksheet_data |-> <<>>],
          [assay |-> Moisture, state |-> <<"i", "n", "_", "p", "r", "o", "g", "r", "e", "s", "s">>,
           entries |-> <<Item(<<"S", "a", "m", "p", "l", "e", "_", "w", "e", "i", "g", "h", "t", "_", "m", "g">>, TextValue(<<"6", "0", "0">>)), Item(<<"W", "e", "i", "g", "h", "t", "_", "m", "g">>, TextValue(<<"4", "0", "0">>))>>,
           worksheet_data |-> <<>>],
          [assay |-> Moisture, state |-> <<"i", "n", "_", "p", "r", "o", "g", "r", "e", "s", "s">>,
           entries |-> <<Item(<<"s", "a", "m", "p", "l", "e", "_", "w", "e", "i", "g", "h", "t">>, NumberValue(125, 10))>>,
           worksheet_data |-> <<Item(<<"W", "e", "i", "g", "h", "t", "_", "m", "g">>, TextValue(<<"1", "2", ".", "5">>))>>],
          [assay |-> Pesticide, state |-> <<"i", "n", "_", "p", "r", "o", "g", "r", "e", "s", "s">>,
           entries |-> <<Item(<<"s", "a", "m", "p", "l", "e", "_", "w", "e", "i", "g", "h", "t">>, NumberValue(125, 10))>>,
           worksheet_data |-> <<>>],
          [assay |-> Pesticide, state |-> <<"c", "o", "m", "p", "l", "e", "t", "e", "d">>,
           entries |-> <<Item(<<"s", "a", "m", "p", "l", "e", "_", "w", "e", "i", "g", "h", "t">>, [k |-> "none", n |-> 0, d |-> 1, s |-> <<>>])>>,
           worksheet_data |-> <<Item(<<"N", "o", "t", "e", "s">>, TextValue(<<"a", "b", "c">>))>>],
          [assay |-> Pesticide, state |-> <<"C", "O", "M", "P", "L", "E", "T", "E", "D">>,
           entries |-> <<Item(<<"T", "r", "i", "p", "_", "W", "e", "i", "g", "h", "t", "_", "m", "g">>, TextValue(<<" ", "7", " ">>))>>,
           worksheet_data |-> <<Item(<<"W", "e", "i", "g", "h", "t", "_", "m", "g">>, TextValue(<<"1", ",", "0", "0", "0">>))>>],
          [assay |-> Ps, state |-> <<"C", "o", "m", "p", "l", "e", "t", "e", "d">>,
           entries |-> <<Item(<<"W", "e", "i", "g", "h", "t", "_", "m", "g">>, TextValue(<<"4", "8", "0">>))>>,
           worksheet_data |-> <<>>] }

\* samples with tests and little else, and samples without a weight on
\* their tests and every combination of the other containers: the sample's
\* own keys, its custom_fields and fields, and the custom fields handed in
WeightArgs ==
    LET SampleEntries ==
            { <<>>,
              <<Item(<<"s", "a", "m", "p", "l", "e", "_", "w", "e", "i", "g", "h", "t">>, TextValue(<<" ", "2", "3", " ", "g">>))>>,
              <<Item(<<"i", "d">>, NumberValue(7, 1)), Item(<<"s", "a", "m", "p", "l", "e", "_", "w", "e", "i", "g", "h", "t">>, TextValue(<<"2", "3">>))>> }
        CustomFields ==
            { <<>>,
              <<Item(<<"M", "a", "s", "s", " ", "(", "m", "g", ")">>, TextValue(<<"1", "2", ",", "3", "4", "5", " ", "m", "g">>))>>,
              <<Item(<<"B", "a", "t", "c", "h">>, TextValue(<<"B", "-", "9", "9">>)), Item(<<"S", "a", "m", "p", "l", "e", " ", "W", "e", "i", "g", "h", "t">>, TextValue(<<" ", "1", ".", "5", " ", "g">>))>>,
              <<Item(<<"T", "r", "i", "p", " ", "W", "e", "i", "g", "h", "t">>, TextValue(<<"5">>))>>,
              <<Item(<<"S", "a", "m", "p", "l", "e", " ", "W", "e", "i", "g", "h", "t">>, TextValue(<<"1", ".", "5">>))>>,
              <<Item(<<"P", "e", "s", "o">>, NumberValue(20, 1))>> }
        SampleCustomFields == { <<>>, <<Item(<<"N", "e", "t", " ", "W", "e", "i", "g", "h", "t">>, TextValue(<<"1", "5", "0">>))>> }
        SampleFields == { <<>>, <<Item(<<"w", "e", "i", "g", "h", "t">>, [k |-> "dict", n |-> 0, d |-> 1, s |-> <<>>]), Item(<<"W", "e", "i", "g", "h", "t">>, TextValue(<<"0", ".", "2">>))>> }
        Fallbacks ==
            { [custom_fields |-> scf, fields |-> sf, entries |-> se, handed |-> cf] :
                scf \in SampleCustomFields, sf \in SampleFields, se \in SampleEntries,
                cf \in CustomFields }
        NoFallback == [custom_fields |-> <<>>, fields |-> <<>>, entries |-> <<>>, handed |-> <<>>]
        DirectAndCustom ==
            [custom_fields |-> <<>>, fields |-> <<>>,
             entries |-> <<Item(<<"s", "a", "m", "p", "l", "e", "_", "w", "e", "i", "g", "h", "t">>, TextValue(<<"2", "3">>))>>,
             handed |-> <<Item(<<"S", "a", "m", "p", "l", "e", " ", "W", "e", "i", "g", "h", "t">>, TextValue(<<"1", ".", "5">>))>>]
        WeightArg(ts, fb) ==
            [sample |-> [tests |-> ts, custom_fields |-> fb.custom_fields,
                         fields |-> fb.fields, entries |-> fb.entries],
             custom_fields |-> fb.handed]
    IN  { WeightArg(ts, fb) : ts \in SeqsUpTo(WeightTests, MaxTests),
                              fb \in {NoFallback, DirectAndCustom} }
        \cup { WeightArg(ts, fb) :
                 ts \in {<<>>, <<CHOOSE t \in WeightTests :
                                    t.entries = <<>> /\ t.worksheet_data = <<>> >>},
                 fb \in Fallbacks }

InitFn ==
    /\ InitClient
    /\ batchPc = "idle"
    /\ batch_payload = EmptyDict
    /\ ids = <<>>
    /\ cfg = DefaultConfig
    /\ InitEngineIdle
    /\ \/ fnPc = "dilution" /\ arg \in DilutionArgs
       \/ fnPc = "format" /\ arg \in FormatArgs
       \/ fnPc = "weight" /\ arg \in WeightArgs
    /\ ret = <<>>

NextFn ==
    \/ DilutionRecommendationCall
    \/ FormatSigfigsCall
    \/ ExtractSampleWeightCall

SpecFn == InitFn /\ [][NextFn]_vars

-----------------------------------------------------------------------------
(* Properties *)

RECURSIVE Pow2(_)
Pow2(n) == IF n = 0 THEN 1 ELSE 2 * Pow2(n - 1)

\* the latest send of the running call has been handled
AfterSend == reqPc \in {"loop", "returned", "raised"} /\ sends >= 1 /\ sends = attempt

IsErrorStatus(r) ==
    r.kind = "response" /\ r.status \notin {401, 429} /\ ~(r.status >= 200 /\ r.status < 300)

\* C1: a response whose status is neither 2xx, 401 nor 429 makes request()
\* raise on that very attempt: no sleep, no further attempt.
C1_OtherStatusRaisesAtOnce ==
    (reqPc # "idle" /\ sends >= 1 /\ IsErrorStatus(resp))
        => (reqPc = "raised" /\ slept = 0 /\ sends = attempt)

\* C2: one request() call sends at most 5 HTTP requests, and every step of
\* the call either ends it or strictly lowers a non-negative measure, so the
\* call ends by returning or raising.
Measure == 2 * (5 - attempt) + (IF reqPc = "send" THEN 1 ELSE 0)
CallAdvances ==
    reqPc \in {"loop", "send"}
        => \/ reqPc' \in {"returned", "raised"}
           \/ reqPc' \in {"loop", "send"} /\ Measure' < Measure /\ Measure' >= 0
C2_AtMostFiveSends ==
    /\ [](sends <= 5 /\ attempt <= 5)
    /\ [][CallAdvances]_vars
C2_Witness == reqPc = "raised" /\ sends = 5 /\ error.tag = "exhausted"

\* C3: a 401 on attempt k clears the credential and sleeps the backoff
\* delay; attempt k+1 calls authenticate() before it sends and does not carry
\* the rejected token.
C3_ReauthAfter401 ==
    /\ (reqPc = "loop" /\ AfterSend /\ resp.status = 401)
          => (auth_header = 0 /\ token_exp = "zero" /\ slept = Pow2(attempt - 1))
    /\ (reqPc = "send" /\ resp.status = 401)
          => (authCalls = 1 /\ auth_header # 0 /\ auth_header # sentHeader)
C3_Witness ==
    reqPc = "send" /\ resp.status = 401 /\ attempt = 3 /\ authCalls = 1 /\ sentHeader # 0

\* C4: an attempt calls authenticate() once when the credential is expired at
\* its start (no token held or now >= expiry) and not at all otherwise; no
\* send carries an empty bearer header.
C4_AuthIffExpired ==
    /\ attempt >= 1 => authCalls = (IF atStart.hdr = 0 \/ atStart.up THEN 1 ELSE 0)
    /\ reqPc = "send" => auth_header # 0
    /\ sends >= 1 => sentHeader # 0
C4_Witness ==
    reqPc = "returned" /\ authCalls = 1 /\ atStart.hdr # 0 /\ atStart.up /\ sentHeader # atStart.hdr

\* C5: whenever authenticate() fails, the credential is left cleared (empty
\* bearer header, expiry 0), also when an earlier token was still stored.
C5_AuthFailureClears ==
    (reqPc = "raised" /\ error.tag = "auth") => (auth_header = 0 /\ token_exp = "zero")

\* C6 as claimed: when all 5 attempts fail with 429, 401, timeouts or other
\* network errors, the call raises QBenchError whose message names the URL.
C6_ExhaustedNamesUrl ==
    (reqPc = "raised" /\ sends = 5 /\ resp.ttl # BadHeader)
        => (error.type = "QBenchError" /\ error.namesUrl)

\* C6 amended: when all 5 attempts fail, the call raises QBenchError; the
\* message names the URL when the 5th failure is a 429, a 401 or a timeout,
\* and carries the text of the underlying exception when the 5th failure is
\* another request exception (an HTTP error status included, whose text names
\* the URL).  A 5th answer of 429 with a throttle header that is not a number
\* leaves as ValueError.
C6_ExhaustedRaises ==
    (reqPc = "raised" /\ sends = 5)
        => IF resp.kind = "response" /\ resp.status = 429 /\ resp.ttl = BadHeader
           THEN error.type = "ValueError"
           ELSE /\ error.type = "QBenchError"
                /\ IF resp.kind = "timeout" \/ resp.status \in {401, 429}
                   THEN error.tag = "exhausted" /\ error.namesUrl
                   ELSE error.tag = "wrapped"
                        /\ error.namesUrl = (resp.kind = "response" \/ resp.namesUrl)
C6_Witness ==
    reqPc = "raised" /\ sends = 5 /\ resp.kind = "neterr" /\ ~resp.namesUrl
    /\ error.type = "QBenchError" /\ ~error.namesUrl

\* C7: a 429 leaves the credential as it was, and the attempt after a 429
\* authenticates only when the expiry time of the held token has passed.
ThrottledStepKeepsCredential ==
    (reqPc = "send" /\ reqPc' # "send" /\ resp'.kind = "response" /\ resp'.status = 429)
        => (auth_header' = auth_header /\ token_exp' = token_exp /\ issued' = issued)
C7_ThrottleKeepsCredential ==
    /\ [][ThrottledStepKeepsCredential]_vars
    /\ []((reqPc = "send" /\ resp.status = 429 /\ authCalls = 1)
            => (atStart.hdr # 0 /\ atStart.exp = "issued" /\ atStart.up))
C7_Witness ==
    reqPc = "send" /\ resp.status = 429 /\ attempt = 2 /\ authCalls = 0
    /\ auth_header = sentHeader

RetriedKind(r) ==
    \/ r.kind \in {"timeout", "neterr"}
    \/ r.kind = "response" /\ r.status \in {401, 429} /\ r.ttl # BadHeader

\* C8 as claimed: the k-th failed attempt of a retried kind sleeps 2^(k-1)
\* seconds, a 429 with throttle header T sleeps T+1 instead; no sleep before
\* the first attempt or after a success.
C8_EveryFailureSleeps ==
    /\ sends = 0 => slept = 0
    /\ (AfterSend /\ reqPc = "returned") => slept = 0
    /\ (AfterSend /\ RetriedKind(resp))
          => slept = (IF resp.ttl >= 0 THEN resp.ttl + 1 ELSE Pow2(attempt - 1))

\* C8 amended: the delay starts at 1 and doubles after every attempt that is
\* retried; a retried k-th attempt sleeps 2^(k-1) seconds, a 429 with numeric
\* throttle header T sleeps T+1 instead; 429, 401 and timeout sleep on the 5th
\* attempt too, while a request exception other than a timeout (an HTTP error
\* status included) on the 5th attempt, and a 429 with a non-numeric header
\* on any attempt, raise without sleeping; no sleep before the first attempt
\* or after a success.
C8_BackoffSchedule ==
    /\ sends = 0 => slept = 0
    /\ reqPc = "loop" => delay = Pow2(attempt)
    /\ AfterSend
          => slept = (CASE reqPc = "returned" -> 0
                        [] reqPc # "returned" /\ resp.ttl = BadHeader -> 0
                        [] reqPc # "returned" /\ resp.ttl >= 0 -> resp.ttl + 1
                        [] reqPc # "returned" /\ resp.ttl = NoHeader
                             /\ (resp.kind = "neterr" \/ IsErrorStatus(resp)) /\ attempt = 5 -> 0
                        [] OTHER -> Pow2(attempt - 1))
C8_Witness ==
    reqPc = "loop" /\ attempt = 5 /\ resp.kind = "timeout" /\ slept = 16 /\ delay = 32

RECURSIVE RowsOfSuccesses(_)
RowsOfSuccesses(log) ==
    IF log = <<>> THEN <<>>
    ELSE (IF Head(log).ok THEN Head(log).rows ELSE <<>>) \o RowsOfSuccesses(Tail(log))

FailedCount(log) == Cardinality({ i \in DOMAIN log : ~log[i].ok })

\* C9: with n >= 1 resolved ids and any set F of failing fetches,
\* get_batch_samples returns normally, visits every id, returns the records
\* of the ids outside F in id order and reports |F| when |F| > 0.
C9_FailuresAbsorbed ==
    (batchPc = "done" /\ sample_ids # <<>>)
        => /\ result.kind = "return"
           /\ Len(fetched) = Len(sample_ids)
           /\ result.rows = RowsOfSuccesses(fetched)
           /\ (FailedCount(fetched) > 0 => result.msg.fallidos = FailedCount(fetched))

\* the id strings of the four sources, in the order the claim fixes
RECURSIVE StringsOf(_)
StringsOf(cs) ==
    IF cs = <<>> THEN <<>>
    ELSE (IF CandidateStr(Head(cs)) = <<>> THEN <<>> ELSE <<CandidateStr(Head(cs))>>)
         \o StringsOf(Tail(cs))

IsSampleEntry(e) == e["type"] \in {"sample", "samples"}

SourceStrings(payload) ==
    LET body == ScannedBody(payload)
    IN  StringsOf(ListOf(body, "sample_ids") \o ListOf(body, "sample_ids_ordered"))
        \o StringsOf(ObjectCandidates(ListOf(body, "samples") \o ListOf(body, "sample_records")
                                      \o ListOf(body, "sample_list")))
        \o StringsOf(RelCandidates(RelData(body)))
        \o StringsOf(RelCandidates(SelectSeq(ListOf(body, "included"), IsSampleEntry)))

FirstIndex(seq, x) == CHOOSE i \in DOMAIN seq : seq[i] = x /\ \A j \in 1..(i - 1) : seq[j] # x

\* C10: extraction returns each distinct id string once, ordered by first
\* appearance over scalar id lists, sample-object lists, relationship data and
\* included resources of type sample; other included resources add nothing.
C10_FirstSeenDedup ==
    batchPc = "extracted"
        => LET all == SourceStrings(batch_payload)
           IN  /\ \A i, j \in DOMAIN ids : i # j => ids[i] # ids[j]
               /\ Range(ids) = Range(all)
               /\ \A i, j \in DOMAIN ids :
                     i < j => FirstIndex(all, ids[i]) < FirstIndex(all, ids[j])
C10_Witness ==
    /\ batchPc = "extracted"
    /\ batch_payload = TestPayload
    /\ ids = << <<"1">>, S002, <<"3">>, S005, <<"6">>, <<"0", "0", "7">>,
                <<"0", "0", "8">>, <<"0", "0", "9">> >>

\* C11: when the batch payload yields no sample id, get_batch_samples returns
\* an empty record list with a non-empty diagnostic, raises nothing and
\* requests no sample.
C11_ZeroIdsDiagnosed ==
    (batchPc = "done" /\ batch_payload \in BatchPayloads /\ ids = <<>>)
        => /\ result.kind = "return"
           /\ result.rows = <<>>
           /\ result.msg.tag # "none"
           /\ result.error = NoError
           /\ fetched = <<>>
           /\ url = <<"batch", batch_id>>
C11_Witness ==
    /\ batchPc = "done"
    /\ batch_payload = Wrapped([sample_ids |-> L(IdList(0))])
    /\ ids = <<>>
    /\ result.msg.tag = "cero"

\* (amount / mass_mg) * dilution_factor of result j of output sample i, a
\* null dilution factor counting as 0
ResultValue(i, j) ==
    LET a == samples[i].results[j].calc_conc
        m == samples[i].mass_mg
        f == IF samples[i].dilution_factor.k = "num" THEN samples[i].dilution_factor
             ELSE Num(0, 1)
    IN  Num(a.n * m.d * f.n, a.d * m.n * f.d)

ValidMass(i) == samples[i].mass_mg.k = "num" /\ samples[i].mass_mg.n > 0

\* C12: for every AnalyteResult whose analyte has a registered limit L and
\* whose final_result reads as a number R, status is "Fail" when R > L and
\* "Pass" otherwise; R = L passes.
C12_LimitLaw ==
    \A i \in DOMAIN samples : \A j \in DOMAIN samples[i].results :
        LET r == samples[i].results[j]
            limit == StateLimit(r.analyte)
            numeric == ParseFloat(r.final_result)
        IN  (limit.k = "num" /\ numeric.k = "num")
                => r.status = IF Less(limit, numeric) THEN "Fail" ELSE "Pass"
C12_Witness ==
    \E i \in DOMAIN samples : \E j \in DOMAIN samples[i].results :
        /\ samples[i].results[j].analyte = Bifenthrin
        /\ samples[i].results[j].final_result = <<"0", ".", "2">>
        /\ samples[i].results[j].status = "Pass"

\* C13: for a nonzero amount and a valid mass > 0, a value
\* (amount / mass_mg) * dilution_factor below 0.1 gives "ND" and a value of
\* 0.1 or more gives the formatted number; exactly 0.1 gives "0.1".
C13_LoqThreshold ==
    \A i \in DOMAIN samples : \A j \in DOMAIN samples[i].results :
        LET r == samples[i].results[j]
            value == ResultValue(i, j)
        IN  (r.calc_conc.n # 0 /\ ValidMass(i))
                => /\ Less(value, Num(1, 10)) => r.final_result = ND
                   /\ ~Less(value, Num(1, 10))
                        => /\ r.final_result = FormatSigfigsNoSci(value, 3)
                           /\ ParseFloat(r.final_result).k = "num"
                   /\ (value.n * 10 = value.d) => r.final_result = <<"0", ".", "1">>
C13_Witness ==
    \E i \in DOMAIN samples : \E j \in DOMAIN samples[i].results :
        /\ ValidMass(i)
        /\ ResultValue(i, j).n * 10 = ResultValue(i, j).d
        /\ samples[i].results[j].final_result = <<"0", ".", "1">>

\* the include-flagged rows of one sample key, in input order
IncludeRowsOf(key) == SelectSeq(df, LAMBDA r : r.include /\ r.sample = key)

Numeric(rs) == SelectSeq(rs, LAMBDA r : r.calc_conc.k = "num")

Carrying(rs, analyte) == SelectSeq(rs, LAMBDA r : MapComponentToAnalyte(r.component) = analyte)

DistinctAnalytes(results) ==
    \A j, k \in DOMAIN results : j # k => results[j].analyte # results[k].analyte

\* result r was made from row
MadeFrom(r, row) == r.component = row.component /\ r.calc_conc = row.calc_conc

\* C14 as stated: no two results of a sample share an analyte name, and the
\* kept entry is the first include-flagged row of the sample carrying it.
C14_FirstRowKept ==
    \A i \in DOMAIN samples :
        /\ DistinctAnalytes(samples[i].results)
        /\ \A j \in DOMAIN samples[i].results :
              MadeFrom(samples[i].results[j],
                       Carrying(IncludeRowsOf(samples[i].sample), samples[i].results[j].analyte)[1])

\* C14: no two results of a sample share an analyte name, and the kept entry
\* is the first include-flagged row of the sample that carries the analyte
\* and has a numeric concentration.
C14_FirstNumericRowKept ==
    \A i \in DOMAIN samples :
        /\ DistinctAnalytes(samples[i].results)
        /\ \A j \in DOMAIN samples[i].results :
              MadeFrom(samples[i].results[j],
                       Carrying(Numeric(IncludeRowsOf(samples[i].sample)),
                                samples[i].results[j].analyte)[1])
C14_Witness ==
    /\ enginePc = "returned"
    /\ \E i \in DOMAIN samples : \E j \in DOMAIN samples[i].results :
          LET rs == Carrying(IncludeRowsOf(samples[i].sample), samples[i].results[j].analyte)
          IN  /\ rs[1].calc_conc.k = "nan"
              /\ Len(Numeric(rs)) >= 2
              /\ MadeFrom(samples[i].results[j], rs[2])

\* a label without its trailing suffix of one space and one or more digits
WithoutOrdinal(label) ==
    LET nd == TrailingRun(label, {"0", "1", "2", "3", "4", "5", "6", "7", "8", "9"})
    IN  IF nd >= 1 /\ Len(label) > nd /\ label[Len(label) - nd] = " "
        THEN SubSeq(label, 1, Len(label) - nd - 1)
        ELSE label

\* C15: the analyte name of every result is its component label with a
\* trailing suffix of one space and one or more digits removed ("X 1",
\* "X 2", "X 12" all give "X"); a label without such a suffix is unchanged.
C15_OrdinalSuffixRemoved ==
    \A i \in DOMAIN samples : \A j \in DOMAIN samples[i].results :
        samples[i].results[j].analyte = WithoutOrdinal(samples[i].results[j].component)

\* the sample's metadata has no weight, or one that is no number or is <= 0
InvalidWeight(key) ==
    \/ key \notin DOMAIN sample_info
    \/ "sample_weight" \notin DOMAIN sample_info[key]
    \/ LET w == ParseFloat(SelectSeq(sample_info[key]["sample_weight"], LAMBDA c : c # ","))
       IN  w.k # "num" \/ w.n <= 0

AnalytesOf(rs) == { MapComponentToAnalyte(rs[n].component) : n \in DOMAIN rs }

\* every sample key with a numeric include-flagged row has its sample, with
\* one result per analyte of those rows
AllSamplesProcessed ==
    \A n \in DOMAIN df :
        (df[n].include /\ df[n].calc_conc.k = "num")
            => \E i \in DOMAIN samples :
                  /\ samples[i].sample = df[n].sample
                  /\ { samples[i].results[j].analyte : j \in DOMAIN samples[i].results }
                        = AnalytesOf(Numeric(IncludeRowsOf(df[n].sample)))

\* C16: a retained row with a nonzero amount whose sample has a missing,
\* non-numeric or <= 0 mass (its key may be absent from the metadata) gets
\* final_result "Invalid Mass" and status "-", and the run goes on over the
\* remaining rows and samples and returns.
C16_InvalidMassIsolated ==
    /\ \A i \in DOMAIN samples : \A j \in DOMAIN samples[i].results :
          (InvalidWeight(samples[i].sample) /\ samples[i].results[j].calc_conc.n # 0)
              => /\ samples[i].results[j].final_result = InvalidMass
                 /\ samples[i].results[j].status = "-"
    /\ (enginePc \in {"returned", "finished", "tabled"} /\ DfYes(df) # <<>>)
          => (output.kind = "return" /\ AllSamplesProcessed)
C16_Witness ==
    /\ enginePc = "returned"
    /\ Len(samples) = 2
    /\ InvalidWeight(samples[1].sample)
    /\ samples[1].results[1].final_result = InvalidMass
    /\ ParseFloat(samples[2].results[1].final_result).k = "num"

EngineEnded == enginePc \in {"returned", "raised", "finished", "tabled"}

\* include-flagged rows exist but none has a numeric concentration
NoSurvivor == DfYes(df) # <<>> /\ Numeric(DfYes(df)) = <<>>

\* C17 as stated: process_batch_dataframe raises when no row is
\* include-flagged and when no sample survives filtering, and never returns
\* an output whose sample list is empty.
C17_NeverReturnsEmpty ==
    EngineEnded
        => /\ (DfYes(df) = <<>> \/ NoSurvivor) => output.kind = "raise"
           /\ output.kind = "return" => output.samples # <<>>

\* C17: process_batch_dataframe raises ValueError when no row is
\* include-flagged; when include-flagged rows exist but no sample survives it
\* returns empty samples and display rows, and BatchProcessWorker.run raises
\* the fatal RuntimeError and reports failure; success is never reported with
\* an empty sample list.
C17_EmptyOutputStopsAtWorker ==
    /\ EngineEnded
          => /\ DfYes(df) = <<>> => (output.kind = "raise" /\ output.error = "ValueError")
             /\ DfYes(df) # <<>> => output.kind = "return"
             /\ NoSurvivor => (output.samples = <<>> /\ output.display_rows = <<>>)
             /\ (output.kind = "return" /\ output.samples = <<>>) => NoSurvivor
    /\ enginePc \in {"finished", "tabled"}
          => /\ finished.emitted
             /\ DfYes(df) = <<>> => (~finished.ok /\ finished.msg = "ValueError")
             /\ NoSurvivor => (~finished.ok /\ finished.msg = "RuntimeError")
             /\ finished.ok => (output.samples # <<>> /\ finished.sample_count >= 1)
C17_Witness ==
    /\ enginePc = "finished"
    /\ NoSurvivor
    /\ output.kind = "return"
    /\ output.samples = <<>>
    /\ ~finished.ok
    /\ finished.msg = "RuntimeError"

\* the processed sample the table was built for
Tabled == output.samples[CHOOSE i \in DOMAIN output.samples : output.samples[i].sample = table.sample]

IsDefaultRow(row) == row.amount = Num(0, 1) /\ row.final_result = ND /\ row.status = "Pass"

CeilOver200(value) ==
    CHOOSE q \in 2..10000 : value.n <= 200 * q * value.d /\ value.n > 200 * (q - 1) * value.d

\* C19: the dilution recommendation is "-" exactly when the raw
\* concentration is missing, NaN or <= 200, and otherwise ceil(raw / 200)
\* written as an integer: 200 gives "-", a value in (200, 400] gives "2";
\* nothing but the raw concentration enters it.
C19_DilutionRecommendation ==
    fnPc = "returned"
        => /\ ret = Dash <=> (arg.k # "num" \/ arg.n <= 200 * arg.d)
           /\ (arg.k = "num" /\ arg.n > 200 * arg.d) => ret = IntToStr(CeilOver200(arg))
           /\ (arg.k = "num" /\ arg.n > 200 * arg.d /\ arg.n <= 400 * arg.d) => ret = <<"2">>
C19_Witness ==
    /\ fnPc = "returned"
    /\ arg = Num(4000, 10)
    /\ ret = <<"2">>

\* index in df of the first include-flagged row of a sample key
FirstIncludeIndex(key) ==
    CHOOSE n \in DOMAIN df :
        /\ df[n].include /\ df[n].sample = key
        /\ \A q \in 1..(n - 1) : ~(df[q].include /\ df[q].sample = key)

\* index in df of the first include-flagged row of a sample key that carries
\* an analyte with a numeric concentration
IsNumericRowOf(n, key, analyte) ==
    /\ df[n].include /\ df[n].sample = key /\ df[n].calc_conc.k = "num"
    /\ MapComponentToAnalyte(df[n].component) = analyte
FirstNumericIndex(key, analyte) ==
    CHOOSE n \in DOMAIN df :
        IsNumericRowOf(n, key, analyte) /\ \A q \in 1..(n - 1) : ~IsNumericRowOf(q, key, analyte)

\* the display projection of the result lists, concatenated
RECURSIVE Projection(_)
Projection(ss) ==
    IF ss = <<>> THEN <<>>
    ELSE Projection(SubSeq(ss, 1, Len(ss) - 1))
         \o [j \in DOMAIN ss[Len(ss)].results |->
                [sample |-> ss[Len(ss)].sample,
                 component |-> ss[Len(ss)].results[j].component,
                 status |-> ss[Len(ss)].results[j].status,
                 dil |-> ss[Len(ss)].results[j].dil]]

RECURSIVE StripTrailingZeros(_)
StripTrailingZeros(n) == IF n # 0 /\ n % 10 = 0 THEN StripTrailingZeros(n \div 10) ELSE n
AtMostThreeSigfigs(v) == StripTrailingZeros(Abs(v.n)) < 1000
SameValue(a, b) == a.k = "num" /\ b.k = "num" /\ a.n * b.d = b.n * a.d
PlainDecimal(s) ==
    /\ s # <<>>
    /\ \A i \in DOMAIN s : IsDigit(s[i]) \/ s[i] = "." \/ (s[i] = "-" /\ i = 1)
    /\ (\E i \in DOMAIN s : s[i] = ".") => s[Len(s)] \notin {"0", "."}

\* C21: formatting to three significant figures is idempotent: the text of a
\* finite value, parsed and formatted again, is the same text; the text is
\* plain decimal with no exponent, no trailing zeros and no trailing point;
\* a value of at most three significant figures is rendered unchanged;
\* 12345.6 gives "12300", 0.09999 gives "0.1" and 0 gives "0".
C21_FormatIdempotent ==
    fnPc = "formatted"
        => /\ FormatSigfigsNoSci(ParseFloat(ret), 3) = ret
           /\ PlainDecimal(ret)
           /\ AtMostThreeSigfigs(arg) => SameValue(ParseFloat(ret), arg)
           /\ arg = Num(123456, 10) => ret = <<"1", "2", "3", "0", "0">>
           /\ arg = Num(9999, 100000) => ret = <<"0", ".", "1">>
           /\ arg.n = 0 => ret = <<"0">>
C21_Witness ==
    /\ fnPc = "formatted"
    /\ arg = Num(123456, 10)
    /\ ret = <<"1", "2", "3", "0", "0">>


\* the weight extraction has returned a value for arg
Weighed == fnPc = "weighed" /\ ret.kind = "return"
TestCandidates == CandidateWeights(arg.sample.tests)
TestOf(c) == arg.sample.tests[c.order + 1]
OnPesticideAssay(t) ==
    \/ Contains(Lower(t.assay.name), <<"p", "e", "s", "t">>)
    \/ Contains(Lower(t.assay.label_abbr), <<"p", "e", "s", "t">>)
    \/ Lower(t.assay.label_abbr) = <<"p", "s">>
InCompletedState(t) == Lower(t.state) = <<"c", "o", "m", "p", "l", "e", "t", "e", "d">>
\* c1 comes strictly before c2: pesticide assay first, completed state
\* first, smaller distance from 500, lower test index
Before(c1, c2) ==
    LET p1 == OnPesticideAssay(TestOf(c1))
        p2 == OnPesticideAssay(TestOf(c2))
        s1 == InCompletedState(TestOf(c1))
        s2 == InCompletedState(TestOf(c2))
    IN  \/ p1 /\ ~p2
        \/ p1 = p2 /\ s1 /\ ~s2
        \/ p1 = p2 /\ s1 = s2 /\ ClosenessLess(c1.closeness, c2.closeness)
        \/ /\ p1 = p2
           /\ s1 = s2
           /\ ClosenessEq(c1.closeness, c2.closeness)
           /\ c1.order < c2.order

DirectField == SearchContainer(arg.sample.entries)
\* the value of the first weight-like custom field handed in
CustomField == SearchContainer(arg.custom_fields)

\* C23: when no test yields a weight and the sample has a direct weight
\* field and a weight-like custom field of another value, the value returned
\* is the one of the direct field.
C23_DirectFieldFirst ==
    (/\ Weighed
     /\ TestCandidates = <<>>
     /\ DirectField # EmptyText
     /\ CustomField # EmptyText
     /\ CustomField # DirectField)
        => ret.value = DirectField

IsNumericToken(s) ==
    /\ s # <<>>
    /\ \A i \in DOMAIN s : IsDigit(s[i]) \/ s[i] = "." \/ (s[i] = "-" /\ i = 1)
    /\ \E i \in DOMAIN s : IsDigit(s[i])

\* C24: every str returned by the weight extraction is empty or a bare
\* numeric token: no surrounding whitespace, no unit text, no thousands
\* separator.
C24_BareNumericToken ==
    (Weighed /\ ret.value.k = "str")
        => (ret.value.s = <<>> \/ IsNumericToken(ret.value.s))

WeightLikeKey(key) ==
    \/ Contains(Lower(key), <<"w", "e", "i", "g", "h", "t">>)
    \/ Contains(Lower(key), <<"m", "a", "s", "s">>)
TripKey(key) == Contains(Lower(key), <<"t", "r", "i", "p">>)
HoldsValue(it) == NormalizeOutput(it.value) # EmptyText
\* nothing but the custom fields handed in can supply the weight
OnlyCustomFields ==
    /\ TestCandidates = <<>>
    /\ arg.sample.entries = <<>>
    /\ arg.sample.custom_fields = <<>>
    /\ arg.sample.fields = <<>>

\* C25: when no higher tier yields a weight, a custom field whose key
\* contains "weight" or "mass" in any letter case, and not "trip", supplies
\* the weight, and the value of a field whose key contains "trip" is not
\* returned.
C25_WeightOrMassNotTrip ==
    (Weighed /\ OnlyCustomFields)
        => /\ (\E i \in DOMAIN arg.custom_fields :
                    /\ WeightLikeKey(arg.custom_fields[i].key)
                    /\ ~TripKey(arg.custom_fields[i].key)
                    /\ HoldsValue(arg.custom_fields[i]))
                => ret.value # EmptyText
           /\ \A i \in DOMAIN arg.custom_fields :
                (TripKey(arg.custom_fields[i].key) /\ HoldsValue(arg.custom_fields[i]))
                    => \/ ret.value # NormalizeOutput(arg.custom_fields[i].value)
                       \/ \E j \in DOMAIN arg.custom_fields :
                            /\ ~TripKey(arg.custom_fields[j].key)
                            /\ arg.custom_fields[j].value = arg.custom_fields[i].value

\* the items of the tests, own keys and worksheet data, under a preferred key
AliasItems ==
    { it \in UNION { Range(t.entries) \cup Range(t.worksheet_data) :
                        t \in Range(arg.sample.tests) } :
        it.key \in Range(preferred_keys) }
\* the worksheet items of the tests under any other key
OtherWorksheetItems ==
    { it \in UNION { Range(t.worksheet_data) : t \in Range(arg.sample.tests) } :
        it.key \notin Range(preferred_keys) }

\* C26: the value of a worksheet-data entry stored under a key that is no
\* preferred key is not returned as the weight (unless an entry under a
\* preferred key holds the same value).
C26_OnlyAliasKeys ==
    (Weighed /\ TestCandidates # <<>>)
        => \A it \in OtherWorksheetItems :
                HoldsValue(it)
                    => \/ ret.value # NormalizeOutput(it.value)
                       \/ \E al \in AliasItems : NormalizeOutput(al.value) = ret.value


\* an attempt begins and the authenticate() it calls issues no token
AuthFailsInAttempt ==
    /\ reqPc = "loop"
    /\ attempt' = attempt + 1
    /\ authCalls' = 1
    /\ issued' = issued
C27_Step ==
    /\ AuthFailsInAttempt
        => /\ reqPc' = "raised"
           /\ error' = AuthError
           /\ sends' = sends
           /\ slept' = slept
           /\ IsTokenExpired(auth_header', timeUp')
    /\ (reqPc = "raised" /\ error = AuthError)
        => /\ reqPc' \in {"raised", "idle", "loop"}
           /\ reqPc' = "loop" => attempt' = 0
           /\ reqPc' # "loop" => attempt' = attempt
           /\ UNCHANGED credVars
           /\ IsTokenExpired(auth_header', timeUp')
    /\ (reqPc = "loop" /\ attempt = 0 /\ attempt' = 1 /\ IsTokenExpired(auth_header, timeUp))
        => authCalls' = 1

\* C27: when authenticate() fails at the start of an attempt, the request
\* raises the authentication error in that step, with no send and no sleep;
\* nothing follows the raise but the end of the call or a new request, the
\* credential is expired then, and a request that starts with an expired
\* credential authenticates in its first attempt.
C27_AuthFailureRaisesAtOnce == [][C27_Step]_vars
C27_Witness ==
    /\ reqPc = "raised"
    /\ error = AuthError
    /\ attempt >= 2
    /\ sends = attempt - 1
    /\ batchPc = "sampleFetch"
    /\ idx < Len(sample_ids)
    /\ IsTokenExpired(auth_header, timeUp)


\* C28: a request that fails raises QBenchError and no exception of another
\* type, so a batch whose ids were resolved returns whatever its sample
\* fetches did.
C28_AlwaysTypedError ==
    /\ reqPc = "raised" => error.type = "QBenchError"
    /\ (batchPc = "done" /\ sample_ids # <<>>) => result.kind = "return"


ShowsResult(row, res) ==
    /\ row.amount = res.calc_conc
    /\ row.final_result = res.final_result
    /\ row.status = res.status

\* C29: every row of the full table shows the amount, final result and
\* status of the sample's result for the row's analyte when the results hold
\* one, and the "ND"/"Pass" default only otherwise; the row of an analyte
\* whose result is "Fail" is never "ND"/"Pass".
C29_TableAgreesWithResults ==
    enginePc = "tabled"
        => /\ \A j \in DOMAIN table.rows :
                 LET mine == { n \in DOMAIN Tabled.results :
                                  Tabled.results[n].analyte = table.rows[j].name }
                 IN  IF mine # {}
                     THEN \E n \in mine : ShowsResult(table.rows[j], Tabled.results[n])
                     ELSE IsDefaultRow(table.rows[j])
           /\ \A n \in DOMAIN Tabled.results :
                 Tabled.results[n].status = "Fail"
                     => \A j \in DOMAIN table.rows :
                            table.rows[j].name = Tabled.results[n].analyte
                                => ~(table.rows[j].final_result = ND /\ table.rows[j].status = "Pass")


\* the text of a number of at least 0.1
DecimalAtLeastLoq(text) ==
    /\ PlainDecimal(text)
    /\ ParseFloat(text).k = "num"
    /\ ~Less(ParseFloat(text), Num(1, 10))

\* C30: every AnalyteResult of process_batch_dataframe has a final_result
\* that is "ND", "Invalid Mass" or the decimal text of a number >= 0.1, and a
\* status among "Pass", "Fail" and "-"; "0" and "Error" do not occur.
C30_ResultDomain ==
    \A i \in DOMAIN samples : \A j \in DOMAIN samples[i].results :
        LET r == samples[i].results[j]
        IN  /\ r.final_result \in {ND, InvalidMass} \/ DecimalAtLeastLoq(r.final_result)
            /\ r.status \in {"Pass", "Fail", "-"}
            /\ r.final_result # <<"0">>
            /\ r.status # "Error"
C30_Witness ==
    /\ output.kind = "return"
    /\ \E n \in DOMAIN df : df[n].include /\ df[n].calc_conc.k = "nan"
    /\ \E i \in DOMAIN output.samples : \E j \in DOMAIN output.samples[i].results :
          DecimalAtLeastLoq(output.samples[i].results[j].final_result)
    /\ \E i \in DOMAIN output.samples : \E j \in DOMAIN output.samples[i].results :
          output.samples[i].results[j].final_result = InvalidMass

====
